---- MODULE Spec2Model ----
(***************************************************************************)
(* A model of the radio_tipe_poc link layer: the wire-frame codec           *)
(* (device/frame.rs), the LoRaRadio driver (radio.rs) and the ATPC          *)
(* (atpc.rs), for one node whose peers and physical radio are the           *)
(* environment.  Time is counted in milliseconds.                           *)
(***************************************************************************)
EXTENDS Integers, Sequences, FiniteSets, TLC

(***************************************************************************)
(* Program constants                                                        *)
(***************************************************************************)
MAX_LORA_PAYLOAD == 253
MAX_SLOTS == 5
MAX_FRAME_LENGTH == MAX_LORA_PAYLOAD * MAX_SLOTS
MAX_ATTEMPT_FREE_CHANNEL == 25
FRAME_NONCE_SIZE == 8
ADDRESS_BITMASK == 32767
ACKNOWLEDGMENT_BITMASK == 32768
GLOBAL_ACKNOWLEDGMENT == 65535
GLOBAL_NO_ACKNOWLEDGMENT == 32767
FT_Message == 0
FT_BroadcastCheckSignal == 6
RB_CAPACITY == 60
ACK_TIMEOUT_MS == 60000
SLOT_BUDGET_MS == 600
SLOT_TOA_MS == 400
CAD_DELAY_MS == 100
RX_BUF_LEN == 256
RX_POLL_RETRIES == 4
RX_POLL_DELAY_MS == 50
MAX_ACKS_PER_FRAME == 16
MAX_QUEUE_RECIPIENTS == 48
MAX_FRAME_RECIPIENTS == 16
FAILED_DRSSI == 30
LRU_NEIGHBORS == 128

(***************************************************************************)
(* Small helpers                                                            *)
(***************************************************************************)
Min(a, b) == IF a < b THEN a ELSE b

Max(a, b) == IF a < b THEN b ELSE a

RECURSIVE Pow2(_)
Pow2(n) == IF n = 0 THEN 1 ELSE 2 * Pow2(n - 1)

\* bit i of the unsigned integer x
BitAt(x, i) == (x \div Pow2(i)) % 2

\* n copies of the byte b
Fill(n, b) == [i \in 1..n |-> b]

\* bytes[a..b) with 0-based offsets, as a Rust slice
Slice(bytes, a, b) == SubSeq(bytes, a + 1, b)

\* bytes[i] with a 0-based offset
At(bytes, i) == bytes[i + 1]

U16BE(x) == << x \div 256, x % 256 >>

I16BE(d) == IF d < 0 THEN U16BE(d + 65536) ELSE U16BE(d)

RECURSIVE UIntBE(_, _)
UIntBE(x, n) == IF n = 0 THEN << >> ELSE Append(UIntBE(x \div 256, n - 1), x % 256)

U64BE(x) == UIntBE(x, FRAME_NONCE_SIZE)

RECURSIVE FromBE(_)
FromBE(bytes) ==
  IF bytes = << >> THEN 0
  ELSE 256 * FromBE(SubSeq(bytes, 1, Len(bytes) - 1)) + bytes[Len(bytes)]

\* a reading of the two bytes that ignores the sign
I16FromBEUnsigned(bytes) == FromBE(bytes)

I16FromBE(bytes) ==
  LET u == FromBE(bytes) IN IF u >= 32768 THEN u - 65536 ELSE u

(***************************************************************************)
(* InfoHeader, AddressHeader, PayloadFlag (device/frame.rs)                 *)
(***************************************************************************)
InfoHeaderNew(recipients, frames) == ((recipients * 16) % 256) + (frames % 16)

InfoSetFrames(ih, frames) == (ih - (ih % 16)) + (frames % 16)

InfoGetFrames(ih) == ih % 16

InfoGetRecipients(ih) == (ih \div 16) % 16

GetAddress(ah) == ah % ACKNOWLEDGMENT_BITMASK

GetAcknowledgment(ah) == (ah \div ACKNOWLEDGMENT_BITMASK) % 2 = 1

IsGlobal(ah) == GetAddress(ah) = GLOBAL_NO_ACKNOWLEDGMENT

AddressHeaderNew(addr, ack) ==
  (addr % ACKNOWLEDGMENT_BITMASK) + (IF ack THEN ACKNOWLEDGMENT_BITMASK ELSE 0)

\* AddressHeader::set_acknowledgment
AddressSetAcknowledgment(ah, ack) ==
  (ah % ACKNOWLEDGMENT_BITMASK) + (IF ack THEN ACKNOWLEDGMENT_BITMASK ELSE 0)

\* a set_address that takes the whole of its argument
AddressSetAddressWhole(ah, addr) == addr

\* AddressHeader::set_address
AddressSetAddress(ah, addr) ==
  (addr % ACKNOWLEDGMENT_BITMASK) + (ah - (ah % ACKNOWLEDGMENT_BITMASK))

\* AddressHeader::new_global
AddressNewGlobal(ack) == IF ack THEN GLOBAL_ACKNOWLEDGMENT ELSE GLOBAL_NO_ACKNOWLEDGMENT

\* a push that replaces the flag: self.0 = 1 << id
PfPushReplace(pf, id) == Pow2(id % 16)

\* self.0 |= 1 << id
PfPush(pf, id) == IF BitAt(pf, id % 16) = 1 THEN pf ELSE pf + Pow2(id % 16)

RECURSIVE PfNew(_)
PfNew(ids) ==
  IF ids = << >> THEN 0
  ELSE PfPush(PfNew(SubSeq(ids, 1, Len(ids) - 1)), ids[Len(ids)])

RECURSIVE PfIdsFrom(_, _)
PfIdsFrom(pf, i) ==
  IF i >= 16 THEN << >>
  ELSE (IF BitAt(pf, i) = 1 THEN << i >> ELSE << >>) \o PfIdsFrom(pf, i + 1)

ToMessageIds(pf) == PfIdsFrom(pf, 0)

(***************************************************************************)
(* Frames.  A recipient header is Direct(ah) or Group(ahs); ahs is a        *)
(* sequence of <<address header, payload flag>>.                            *)
(***************************************************************************)
Direct(ah) == [kind |-> "Direct", ah |-> ah, ahs |-> << >>]

Group(ahs) == [kind |-> "Group", ah |-> 0, ahs |-> ahs]

RecipientsSize(r) == IF r.kind = "Direct" THEN 1 + 2 ELSE 1 + 4 * Len(r.ahs)

HeadersSize(h) == 1 + RecipientsSize(h.recipients) + 1 + 2 + FRAME_NONCE_SIZE

AcksSize(acks) == Len(acks) * (2 + FRAME_NONCE_SIZE + 2)

RECURSIVE PayloadsSize(_)
PayloadsSize(pls) ==
  IF pls = << >> THEN 1
  ELSE PayloadsSize(SubSeq(pls, 1, Len(pls) - 1)) + 2 + Len(pls[Len(pls)])

FrameSize(f) == HeadersSize(f.headers) + PayloadsSize(f.payloads) + AcksSize(f.acknowledgments)

RECURSIVE GroupBytes(_)
GroupBytes(ahs) ==
  IF ahs = << >> THEN << >>
  ELSE U16BE(ahs[1][1]) \o U16BE(ahs[1][2]) \o GroupBytes(Tail(ahs))

RecipientsToBytes(r) ==
  IF r.kind = "Direct" THEN << 1 >> \o U16BE(r.ah)
  ELSE << Len(r.ahs) % 256 >> \o GroupBytes(r.ahs)

HeadersToBytes(h) ==
  << h.rec_n_frames >> \o RecipientsToBytes(h.recipients) \o U16BE(h.sender)
    \o << h.payloads >> \o U64BE(h.nonce)

RECURSIVE AcksBytes(_)
AcksBytes(acks) ==
  IF acks = << >> THEN << >>
  ELSE U16BE(acks[1][1]) \o U64BE(acks[1][2]) \o I16BE(acks[1][3]) \o AcksBytes(Tail(acks))

RECURSIVE PayloadsBytes(_)
PayloadsBytes(pls) ==
  IF pls = << >> THEN << >>
  ELSE U16BE(Len(pls[1]) % 65536) \o pls[1] \o PayloadsBytes(Tail(pls))

\* RadioFrameWithHeaders::to_bytes; the assert on the payload count aborts
FrameToBytesPanics(f) == f.headers.payloads # Len(f.payloads) % 256

FrameToBytes(f) ==
  HeadersToBytes(f.headers) \o << Len(f.acknowledgments) % 256 >>
    \o AcksBytes(f.acknowledgments) \o PayloadsBytes(f.payloads)

(***************************************************************************)
(* Decoding.  A result is [res |-> "Ok", val, read], [res |-> "Err"] (the   *)
(* InvalidHeader error) or [res |-> "Panic"] (an out-of-range slice).       *)
(***************************************************************************)
DecErr == [res |-> "Err", val |-> << >>, read |-> 0]

DecPanic == [res |-> "Panic", val |-> << >>, read |-> 0]

DecOk(v, n) == [res |-> "Ok", val |-> v, read |-> n]

RECURSIVE GroupFromBytes(_, _, _)
GroupFromBytes(bytes, i, nrec) ==
  IF i >= nrec THEN << >>
  ELSE << << FromBE(Slice(bytes, 1 + i * 4, 3 + i * 4)),
             FromBE(Slice(bytes, 3 + i * 4, 5 + i * 4)) >> >>
       \o GroupFromBytes(bytes, i + 1, nrec)

RecipientsFromBytes(bytes) ==
  IF Len(bytes) < 1 THEN DecErr
  ELSE LET nrec == At(bytes, 0) IN
    CASE nrec = 0 -> DecErr
      [] nrec = 1 ->
           IF Len(bytes) < 3 THEN DecErr
           ELSE DecOk(Direct(FromBE(Slice(bytes, 1, 3))), 3)
      [] nrec >= 2 /\ nrec <= 16 ->
           IF Len(bytes) < 1 + 4 * nrec THEN DecErr
           ELSE DecOk(Group(GroupFromBytes(bytes, 0, nrec)), 5 + (nrec - 1) * 4)
      [] OTHER -> DecErr

\* the header fields that follow the recipient header rr
HeadersAfterRecipients(bytes, rr) ==
  IF rr.res # "Ok" THEN rr
  ELSE IF Len(bytes) < rr.read + 3 THEN DecErr
  ELSE IF Len(bytes) < rr.read + 4 THEN DecErr
  ELSE IF Len(bytes) < rr.read + 4 + FRAME_NONCE_SIZE THEN DecErr
  ELSE DecOk([rec_n_frames |-> At(bytes, 0),
              recipients |-> rr.val,
              payloads |-> At(bytes, rr.read + 3),
              sender |-> FromBE(Slice(bytes, rr.read + 1, rr.read + 3)),
              nonce |-> FromBE(Slice(bytes, rr.read + 4,
                                     rr.read + 4 + FRAME_NONCE_SIZE))],
             rr.read + 4 + FRAME_NONCE_SIZE)

HeadersFromBytes(bytes) ==
  IF Len(bytes) < 1 THEN DecErr
  ELSE HeadersAfterRecipients(bytes, RecipientsFromBytes(Slice(bytes, 1, Len(bytes))))

\* the acknowledgment loop: val is the list read so far, read the cursor
RECURSIVE AcksFromBytes(_, _, _, _)
AcksFromBytes(bytes, cursor, n, acc) ==
  IF n = 0 THEN DecOk(acc, cursor)
  ELSE IF Len(bytes) < cursor + 2 + FRAME_NONCE_SIZE THEN DecErr
  ELSE IF Len(bytes) < cursor + 2 + FRAME_NONCE_SIZE + 2 THEN DecPanic
  ELSE AcksFromBytes(bytes, cursor + 2 + FRAME_NONCE_SIZE + 2, n - 1,
         Append(acc, << FromBE(Slice(bytes, cursor, cursor + 2)),
                        FromBE(Slice(bytes, cursor + 2, cursor + 2 + FRAME_NONCE_SIZE)),
                        I16FromBE(Slice(bytes, cursor + 2 + FRAME_NONCE_SIZE,
                                        cursor + 2 + FRAME_NONCE_SIZE + 2)) >>))

\* the payload loop
RECURSIVE PayloadsFromBytes(_, _, _, _)
PayloadsFromBytes(bytes, cursor, n, acc) ==
  IF n = 0 THEN DecOk(acc, cursor)
  ELSE IF Len(bytes) < cursor THEN DecErr
  ELSE IF Len(bytes) < cursor + 2 THEN DecPanic
  ELSE LET len == FromBE(Slice(bytes, cursor, cursor + 2)) IN
       IF Len(bytes) < cursor + len THEN DecErr
       ELSE IF Len(bytes) < cursor + 2 + len THEN DecPanic
       ELSE PayloadsFromBytes(bytes, cursor + 2 + len, n - 1,
              Append(acc, Slice(bytes, cursor + 2, cursor + 2 + len)))

\* the frame once headers hr, acknowledgments ar and payloads pr are read
FrameAfterPayloads(hr, ar, pr) ==
  IF pr.res # "Ok" THEN pr
  ELSE DecOk([headers |-> hr.val, acknowledgments |-> ar.val, payloads |-> pr.val],
             pr.read)

FrameAfterAcks(bytes, hr, ar) ==
  IF ar.res # "Ok" THEN ar
  ELSE FrameAfterPayloads(hr, ar,
         PayloadsFromBytes(bytes, ar.read, hr.val.payloads, << >>))

FrameAfterHeaders(bytes, hr) ==
  IF hr.res # "Ok" THEN hr
  ELSE IF Len(bytes) <= hr.read THEN DecPanic
  ELSE FrameAfterAcks(bytes, hr,
         AcksFromBytes(bytes, hr.read + 1, At(bytes, hr.read), << >>))

FrameFromBytes(bytes) == FrameAfterHeaders(bytes, HeadersFromBytes(bytes))

(***************************************************************************)
(* ATPC (atpc.rs).  The driver is generic over the ATPC; atpc.kind tells    *)
(* which implementation the node was built with.  neighbors is the LRU      *)
(* cache as a function on the registered addresses (its capacity of 128 is  *)
(* never reached by the addresses used here); beacons is the LRU cache of   *)
(* (nonce, TP index), most recently used first.                             *)
(* Every operation returns the new ATPC and whether it aborted.             *)
(***************************************************************************)
RECURSIVE SortInsert(_, _)
SortInsert(s, x) ==
  IF s = << >> THEN << x >>
  ELSE IF x <= s[1] THEN << x >> \o s
  ELSE << s[1] >> \o SortInsert(Tail(s), x)

RECURSIVE Sort(_)
Sort(s) == IF s = << >> THEN << >> ELSE SortInsert(Sort(Tail(s)), s[1])

IsSorted(s) == \A i \in 1..(Len(s) - 1) : s[i] <= s[i + 1]

Range(s) == { s[i] : i \in 1..Len(s) }

\* integer division of Rust: the quotient is truncated toward zero
TruncDiv(p, q) ==
  IF q > 0 THEN (IF p >= 0 THEN p \div q ELSE -((-p) \div q))
  ELSE (IF p >= 0 THEN -(p \div (-q)) ELSE (-p) \div (-q))

\* `as i16` of a float: saturating
SatI16(x) == IF x > 32767 THEN 32767 ELSE IF x < -32768 THEN -32768 ELSE x

RECURSIVE SumSeq(_)
SumSeq(s) == IF s = << >> THEN 0 ELSE s[1] + SumSeq(Tail(s))

NeighborModelNew(ntp) ==
  [status |-> "Initializing", a |-> 0, b |-> 0, rssi |-> [i \in 1..ntp |-> 0]]

AtpcNew(kind, tps, default_tp, lower_rssi, t) ==
  [kind |-> kind, tps |-> tps, default_tp |-> default_tp, lower_rssi |-> lower_rssi,
   neighbors |-> << >>, beacons |-> << >>, last_beacon |-> t, counter |-> 0]

AtpcRes(at, panic) == [atpc |-> at, panic |-> panic]

HasNeighbor(at, addr) == addr \in DOMAIN at.neighbors

AtpcRegisterNeighbor(at, addr) ==
  IF at.kind = "Testing" \/ HasNeighbor(at, addr) THEN at
  ELSE [at EXCEPT !.neighbors =
          [x \in (DOMAIN at.neighbors) \cup {addr} |->
             IF x = addr THEN NeighborModelNew(Len(at.tps)) ELSE at.neighbors[x]]]

\* DefaultATPC::calc_node_tp; the division aborts when a = 0
CalcNodeTpPanics(at, addr) == at.neighbors[addr].a = 0

CalcNodeTp(at, addr) ==
  LET neigh == at.neighbors[addr]
      tp_target == TruncDiv(at.lower_rssi - neigh.b, neigh.a)
      found == { i \in 1..Len(at.tps) : at.tps[i] >= tp_target }
  IN  IF found # {} THEN at.tps[CHOOSE i \in found : \A j \in found : i <= j]
      ELSE at.tps[Len(at.tps)]

\* ATPC::get_tx_power: [tp, atpc, panic]
AtpcGetTxPower(at, addr) ==
  IF at.kind = "Testing"
  THEN [tp |-> at.tps[at.counter + 1],
        atpc |-> [at EXCEPT !.counter = (at.counter + 1) % Len(at.tps)],
        panic |-> FALSE]
  ELSE IF HasNeighbor(at, addr)
       THEN IF CalcNodeTpPanics(at, addr)
            THEN [tp |-> 0, atpc |-> at, panic |-> TRUE]
            ELSE [tp |-> CalcNodeTp(at, addr), atpc |-> at, panic |-> FALSE]
       ELSE [tp |-> at.tps[at.default_tp + 1], atpc |-> at, panic |-> FALSE]

\* the loop of DefaultATPC::get_min_tx_power over the sorted addresses;
\* tx is << >> for None and << tp >> for Some(tp)
RECURSIVE MinTxLoop(_, _, _, _)
MinTxLoop(at, addrs, tx, upd) ==
  IF addrs = << >> THEN [tx |-> tx, upd |-> upd, panic |-> FALSE]
  ELSE LET r == AtpcGetTxPower(at, addrs[1]) IN
       IF r.panic THEN [tx |-> tx, upd |-> upd, panic |-> TRUE]
       ELSE IF tx = << >> \/ r.tp = tx[1]
            THEN MinTxLoop(at, Tail(addrs), tx, Append(upd, addrs[1]))
            ELSE IF r.tp > tx[1]
                 THEN MinTxLoop(at, Tail(addrs), << r.tp >>, << addrs[1] >>)
                 ELSE MinTxLoop(at, Tail(addrs), tx, upd)

\* ATPC::get_min_tx_power: [tp, peers, atpc, panic]
AtpcGetMinTxPower(at, addrs) ==
  IF at.kind = "Testing"
  THEN LET r == AtpcGetTxPower(at, addrs[1]) IN
       [tp |-> r.tp, peers |-> addrs, atpc |-> r.atpc, panic |-> FALSE]
  ELSE LET sorted == Sort(addrs)
           l == MinTxLoop(at, sorted, << >>, << >>)
       IN  IF l.panic THEN [tp |-> 0, peers |-> << >>, atpc |-> at, panic |-> TRUE]
           ELSE IF l.tx # << >>
                THEN [tp |-> l.tx[1], peers |-> l.upd, atpc |-> at, panic |-> FALSE]
                ELSE [tp |-> at.tps[at.default_tp + 1], peers |-> sorted,
                      atpc |-> at, panic |-> FALSE]

\* DefaultATPC::rebuid_neighbor_model, on an existing neighbor
RebuildNeighborModel(at, addr) ==
  LET neigh == at.neighbors[addr]
      n == Len(at.tps)
      sum_tp == SumSeq(at.tps)
      sum_rssi == SumSeq(neigh.rssi)
      sum_tp_rssi == SumSeq([i \in 1..n |-> at.tps[i] * neigh.rssi[i]])
      denominator == n * SumSeq([i \in 1..n |-> at.tps[i] * at.tps[i]]) + sum_tp * sum_tp
      num_a == (sum_rssi * sum_tp * sum_tp) - (sum_tp * sum_tp_rssi)
      num_b == (n * sum_tp_rssi) - (sum_tp * sum_rssi)
      a2 == IF denominator = 0
            THEN (IF num_a > 0 THEN 32767 ELSE IF num_a < 0 THEN -32768 ELSE 0)
            ELSE SatI16(TruncDiv(num_a, denominator))
      b2 == IF denominator = 0
            THEN (IF num_b > 0 THEN 32767 ELSE IF num_b < 0 THEN -32768 ELSE 0)
            ELSE SatI16(TruncDiv(num_b, denominator))
  IN  [at EXCEPT !.neighbors[addr] =
         [neigh EXCEPT !.a = a2, !.b = b2, !.status = "Runtime"]]

\* DefaultATPC::update_neighbor_model
UpdateNeighborModel(at, addr, delta) ==
  LET r == AtpcGetTxPower(at, addr) IN
  IF r.panic THEN AtpcRes(at, TRUE)
  ELSE IF HasNeighbor(at, addr)
          /\ ( (delta > 0 /\ r.tp < at.tps[Len(at.tps)])
               \/ (delta < 0 /\ r.tp > at.tps[1]) )
       THEN AtpcRes([at EXCEPT !.neighbors[addr].b = @ - delta], FALSE)
       ELSE AtpcRes(at, FALSE)

BeaconIndex(at, nonce) == { i \in 1..Len(at.beacons) : at.beacons[i][1] = nonce }

\* LruCache::get moves the entry to the front
BeaconsPromote(bs, i) == << bs[i] >> \o SubSeq(bs, 1, i - 1) \o SubSeq(bs, i + 1, Len(bs))

\* LruCache::push: replaces the value of a present key, evicts the least
\* recently used entry when the cache is full
BeaconsPush(bs, cap, nonce, tpi) ==
  LET at_ == { i \in 1..Len(bs) : bs[i][1] = nonce } IN
  IF at_ # {}
  THEN LET i == CHOOSE i \in at_ : TRUE IN
       << << nonce, tpi >> >> \o SubSeq(bs, 1, i - 1) \o SubSeq(bs, i + 1, Len(bs))
  ELSE IF Len(bs) >= cap THEN << << nonce, tpi >> >> \o SubSeq(bs, 1, Len(bs) - 1)
  ELSE << << nonce, tpi >> >> \o bs

AtpcRegisterBeacon(at, tpi, nonce, t) ==
  IF at.kind = "Testing" THEN at
  ELSE [at EXCEPT !.last_beacon = t,
                  !.beacons = BeaconsPush(at.beacons, Len(at.tps) + 1, nonce, tpi)]

AtpcReportSuccessfulReception(at, addr, nonce, drssi) ==
  IF at.kind = "Testing" THEN AtpcRes(at, FALSE)
  ELSE IF BeaconIndex(at, nonce) # {}
       THEN LET i == CHOOSE i \in BeaconIndex(at, nonce) : TRUE
                tpi == at.beacons[i][2]
                at1 == [at EXCEPT !.beacons = BeaconsPromote(at.beacons, i)]
            IN  IF HasNeighbor(at1, addr)
                THEN AtpcRes(RebuildNeighborModel(
                       [at1 EXCEPT !.neighbors[addr].rssi[tpi + 1] = drssi], addr), FALSE)
                ELSE AtpcRes(at1, FALSE)
       ELSE UpdateNeighborModel(at, addr, drssi)

AtpcReportFailedReception(at, addr) ==
  IF at.kind = "Testing" THEN AtpcRes(at, FALSE)
  ELSE UpdateNeighborModel(at, addr, -FAILED_DRSSI)

AtpcGetBeaconPowers(at) == IF at.kind = "Testing" THEN << >> ELSE at.tps


(***************************************************************************)
(* The state of the node                                                    *)
(***************************************************************************)
VARIABLES
  now,                          \* the monotonic clock (Instant::now), in ms
  address,                      \* LoRaRadio.address
  nch,                          \* LoRaRadio.channels.len()
  rx_client,                    \* LoRaRadio.rx_client is Some
  tx_client,                    \* LoRaRadio.tx_client is Some
  tx_buffer,                    \* LoRaRadio.tx_buffer
  tx_buf_acknowledgments,       \* LoRaRadio.tx_buf_acknowledgments
  tx_frame,                     \* LoRaRadio.tx_frame: << >> is None, << f >> is Some(f)
  tx_history,                   \* LoRaRadio.tx_history, oldest first
  pending_rx_acknowledgments,   \* LoRaRadio.pending_rx_acknowledgments
  pending_tx_acknowledgments,   \* LoRaRadio.pending_tx_acknowledgments, oldest first
  channel_usages,               \* LoRaRadio.channel_usages
  atpc,                         \* LoRaRadio.atpc
  radio,                        \* the physical radio: channel index, power, state
  crashed,                      \* the program stopped: it aborted (panic) or never returns
  ret,                          \* what the last Device call returned
  tx_events,                    \* the calls received by the TxClient, in order
  rx_events,                    \* the calls received by the RxClient, in order
  air,                          \* the slots emitted by the last transmit call
  expected,                     \* the acknowledgments requested by completed transmits
  arg,                          \* the operation called last and its inputs
  calls                         \* what the calls did so far: their numbers, the slots emitted

vars == << now, address, nch, rx_client, tx_client, tx_buffer, tx_buf_acknowledgments,
           tx_frame, tx_history, pending_rx_acknowledgments, pending_tx_acknowledgments,
           channel_usages, atpc, radio, crashed, ret, tx_events, rx_events, air, expected, arg, calls >>

(***************************************************************************)
(* Bounds and configuration of the checked instance                        *)
(***************************************************************************)
\* the clock stops advancing after MaxTime ms
MaxTime == 95000
\* at most MaxFrames frames are put on air
MaxFrames == 2
\* at most MaxBuffered payloads wait in tx_buffer
MaxBuffered == 3
\* at most MaxReceptions frames are received
MaxReceptions == 1
\* recipient lists up to this length are emitted in every order
MaxPermuted == 3
\* UNIX time at Init, in seconds
WallAtBoot == 1
\* the address of the node and of two peers
MyAddress == 82
PeerA == 80
PeerB == 90
\* the number of configured channels and the power levels of the ATPC
NChannels == 5
TpList == << 10, 8, 6, 4, 2 >>
\* the clock advances by TickMs between two calls
TickMs == 30000
\* the nonce of the frames sent by the peers
PeerNonce == 9
\* DelayParams of every channel (the values of the module documentation)
DUTY_CYCLE_PERCENT == 1
MIN_DELAY_US == 10000000
POLL_DELAY == 100000
DUTY_INTERVAL_S == 120
RSSI_TARGET == -100

(***************************************************************************)
(* HeapRb                                                                   *)
(***************************************************************************)
\* HeapRb::push: the element is refused when the buffer is full
RbPush(rb, x) == IF Len(rb) >= RB_CAPACITY THEN rb ELSE Append(rb, x)

\* HeapRb::push_overwrite: the oldest element is dropped when full
RbPushOverwrite(rb, x) == IF Len(rb) >= RB_CAPACITY THEN Append(Tail(rb), x) ELSE Append(rb, x)

(***************************************************************************)
(* LoRaRadio::build_frame                                                   *)
(***************************************************************************)
WallSeconds(t) == WallAtBoot + (t \div 1000)

\* (ts << 16) + (rp[1] << 8) + rp[0]
MakeNonce(t, rnd) == WallSeconds(t) * 65536 + rnd

RecipientKeys(buffer, acks) ==
  UNION { Range(buffer[i].dest) : i \in 1..Len(buffer) } \cup { acks[i][1] : i \in 1..Len(acks) }

RECURSIVE RecipientFlagFrom(_, _, _)
RecipientFlagFrom(buffer, key, id) ==
  IF id >= Len(buffer) THEN 0
  ELSE LET rest == RecipientFlagFrom(buffer, key, id + 1) IN
       IF key \in Range(buffer[id + 1].dest) THEN PfPush(rest, id % 256) ELSE rest

RecipientFlag(buffer, key) == RecipientFlagFrom(buffer, key, 0)

\* the elements of a set of numbers in ascending order
RECURSIVE Ascending(_)
Ascending(S) ==
  IF S = {} THEN << >>
  ELSE LET m == CHOOSE x \in S : \A y \in S : x <= y
       IN  << m >> \o Ascending(S \ {m})

\* the iteration orders of the HashMap of recipients
Orders(keys) ==
  LET n == Cardinality(keys)
      asc == Ascending(keys)
  IN  IF n <= MaxPermuted
      THEN { s \in [1..n -> keys] : Range(s) = keys }
      ELSE { asc, [i \in 1..n |-> asc[n + 1 - i]] }

BuildErr(e, size) == [res |-> e, frame |-> << >>, size |-> size]

BuildFrame(self_address, buffer, acks, nonce, order) ==
  LET keys == RecipientKeys(buffer, acks)
      n == Cardinality(keys)
      payloads == [i \in 1..Len(buffer) |-> buffer[i].payload]
      recipients == IF n = 1 THEN Direct(order[1])
                    ELSE Group([i \in 1..n |-> << order[i], RecipientFlag(buffer, order[i]) >>])
      headers == [rec_n_frames |-> InfoHeaderNew(1, 0),
                  recipients |-> recipients,
                  payloads |-> Len(payloads) % 256,
                  sender |-> self_address,
                  nonce |-> nonce]
      ffsize == HeadersSize(headers) + AcksSize(acks)
      frame == [headers |-> headers, acknowledgments |-> acks, payloads |-> payloads]
      len == FrameSize(frame)
      frames == ((len \div MAX_LORA_PAYLOAD) % 256) + 1
  IN  IF n = 0 \/ n > MAX_FRAME_RECIPIENTS THEN BuildErr("InvalidRecipents", n)
      ELSE IF ffsize > MAX_LORA_PAYLOAD THEN BuildErr("TooBigFirstFrame", ffsize)
      ELSE IF len > MAX_FRAME_LENGTH THEN BuildErr("TooBigFrame", len)
      ELSE [res |-> "Ok",
            frame |-> [frame EXCEPT !.headers.rec_n_frames = InfoSetFrames(@, frames)],
            size |-> len]

(***************************************************************************)
(* Device::queue and Device::queue_acknowledgments                          *)
(***************************************************************************)
Global == [kind |-> "Global", addrs |-> << >>]

Unique(addr) == [kind |-> "Unique", addrs |-> << addr >>]

GroupDest(addrs) == [kind |-> "Group", addrs |-> addrs]

QueueRecipients(dest, ack) ==
  CASE dest.kind = "Global" ->
         << IF ack THEN GLOBAL_ACKNOWLEDGMENT ELSE GLOBAL_NO_ACKNOWLEDGMENT >>
    [] dest.kind = "Unique" ->
         << (dest.addrs[1] % ACKNOWLEDGMENT_BITMASK)
              + (IF ack THEN ACKNOWLEDGMENT_BITMASK ELSE 0) >>
    [] OTHER ->
         [i \in 1..Len(dest.addrs) |->
            (dest.addrs[i] % ACKNOWLEDGMENT_BITMASK)
              + (IF ack THEN ACKNOWLEDGMENT_BITMASK ELSE 0)]

RECURSIVE RegisterAll(_, _)
RegisterAll(at, addrs) ==
  IF addrs = << >> THEN at
  ELSE RegisterAll(AtpcRegisterNeighbor(at, addrs[1]), Tail(addrs))

QueueRegister(at, dest, ack) ==
  CASE dest.kind = "Global" -> at
    [] dest.kind = "Unique" -> IF ack THEN AtpcRegisterNeighbor(at, dest.addrs[1]) ELSE at
    [] OTHER -> RegisterAll(at, dest.addrs)

Ret(op, val, err, nonce) == [op |-> op, val |-> val, err |-> err, nonce |-> nonce]

\* the value returned by queue for a result of build_frame
QueueResult(op, b) ==
  CASE b.res = "Ok" -> Ret(op, "Ok", "", 0)
    [] b.res = "TooBigFrame" -> Ret(op, "QueueFull", b.res, 0)
    [] OTHER -> Ret(op, "DeviceError", b.res, 0)

\* the builds of the program: with the overflow checks of a debug build a
\* shift `1 << id` with id >= 16 aborts, without them the shift amount wraps
OverflowChecks == { TRUE, FALSE }

\* the payload ids a PayloadFlag has a bit for
MAX_PAYLOAD_IDS == 16

\* build_frame shifts by a payload id that has no bit in the flag
ShiftOverflows(buffer) == Len(buffer) > MAX_PAYLOAD_IDS

\* Device::queue, called while fewer than bound payloads are buffered
QueueUpTo(dest, payload, ack, rnd, bound) ==
  /\ ~crashed
  /\ arg' = [op |-> "queue", dest |-> dest, payload |-> payload, ack |-> ack,
             pre |-> [tx_buffer |-> tx_buffer, acks |-> tx_buf_acknowledgments,
                      tx_frame |-> tx_frame],
             retry |-> /\ arg.op = "transmit" /\ ret.val = "Ok" /\ ret.nonce # 0
                       /\ arg.rejected = << << dest, payload, ack >> >>]
  /\ Len(tx_buffer) < bound
  /\ LET recipients == QueueRecipients(dest, ack)
         buf == Append(tx_buffer, [dest |-> recipients, payload |-> payload])
     IN  /\ atpc' = QueueRegister(atpc, dest, ack)
         /\ IF Len(recipients) > MAX_QUEUE_RECIPIENTS
            THEN /\ ret' = Ret("queue", "QueueFull", "InvalidRecipents", 0)
                 /\ UNCHANGED << tx_buffer, tx_frame, crashed >>
            ELSE \E checked \in (IF ShiftOverflows(buf) THEN OverflowChecks ELSE { FALSE }) :
                   IF checked
                   THEN /\ ret' = Ret("queue", "Panic", "", 0)
                        /\ crashed' = TRUE
                        /\ UNCHANGED << tx_buffer, tx_frame >>
                   ELSE \E order \in Orders(RecipientKeys(buf, tx_buf_acknowledgments)) :
                          LET b == BuildFrame(address, buf, tx_buf_acknowledgments,
                                              MakeNonce(now, rnd), order)
                          IN  /\ ret' = QueueResult("queue", b)
                              /\ IF b.res = "Ok"
                                 THEN /\ tx_buffer' = buf
                                      /\ tx_frame' = << b.frame >>
                                 ELSE UNCHANGED << tx_buffer, tx_frame >>
                              /\ UNCHANGED crashed
  /\ UNCHANGED << now, address, nch, rx_client, tx_client, tx_buf_acknowledgments,
                  tx_history, pending_rx_acknowledgments, pending_tx_acknowledgments,
                  channel_usages, radio, tx_events, rx_events, air, expected,
                  calls >>

\* Device::queue while fewer than MaxBuffered payloads are buffered
Queue(dest, payload, ack, rnd) == QueueUpTo(dest, payload, ack, rnd, MaxBuffered)

QueueAcknowledgments(rnd) ==
  /\ ~crashed
  /\ arg' = [op |-> "queue_acknowledgments",
             pre |-> [pending_rx |-> pending_rx_acknowledgments,
                      acks |-> tx_buf_acknowledgments]]
  /\ IF Len(pending_rx_acknowledgments) > 0
     THEN LET n == MAX_ACKS_PER_FRAME - Len(tx_buf_acknowledgments) IN
          IF n > 0
          THEN LET take == Min(Min(MAX_ACKS_PER_FRAME, n), Len(pending_rx_acknowledgments))
                   app == SubSeq(pending_rx_acknowledgments, 1, take)
                   ack_buf == tx_buf_acknowledgments \o app
               IN  /\ pending_rx_acknowledgments' =
                        SubSeq(pending_rx_acknowledgments, take + 1,
                               Len(pending_rx_acknowledgments))
                   /\ \E order \in Orders(RecipientKeys(tx_buffer, ack_buf)) :
                        LET b == BuildFrame(address, tx_buffer, ack_buf,
                                            MakeNonce(now, rnd), order)
                        IN  /\ ret' = IF b.res = "Ok"
                                      THEN Ret("queue_acknowledgments", "Ok(true)", "", 0)
                                      ELSE QueueResult("queue_acknowledgments", b)
                            /\ IF b.res = "Ok"
                               THEN /\ tx_buf_acknowledgments' = ack_buf
                                    /\ tx_frame' = << b.frame >>
                               ELSE UNCHANGED << tx_buf_acknowledgments, tx_frame >>
          ELSE /\ ret' = Ret("queue_acknowledgments", "QueueFull",
                             "TooManyAcknowledgments", 0)
               /\ UNCHANGED << pending_rx_acknowledgments, tx_buf_acknowledgments, tx_frame >>
     ELSE /\ ret' = Ret("queue_acknowledgments", "Ok(false)", "", 0)
          /\ UNCHANGED << pending_rx_acknowledgments, tx_buf_acknowledgments, tx_frame >>
  /\ UNCHANGED << now, address, nch, rx_client, tx_client, tx_buffer, tx_history,
                  pending_tx_acknowledgments, channel_usages, atpc, radio, crashed,
                  tx_events, rx_events, air, expected, calls >>

SetTransmitClient ==
  /\ ~crashed
  /\ ~tx_client
  /\ arg' = [op |-> "set_transmit_client"]
  /\ tx_client' = TRUE
  /\ ret' = Ret("set_transmit_client", "", "", 0)
  /\ UNCHANGED << now, address, nch, rx_client, tx_buffer, tx_buf_acknowledgments,
                  tx_frame, tx_history, pending_rx_acknowledgments,
                  pending_tx_acknowledgments, channel_usages, atpc, radio, crashed,
                  tx_events, rx_events, air, expected, calls >>

SetReceiveClient ==
  /\ ~crashed
  /\ ~rx_client
  /\ arg' = [op |-> "set_receive_client"]
  /\ rx_client' = TRUE
  /\ ret' = Ret("set_receive_client", "", "", 0)
  /\ UNCHANGED << now, address, nch, tx_client, tx_buffer, tx_buf_acknowledgments,
                  tx_frame, tx_history, pending_rx_acknowledgments,
                  pending_tx_acknowledgments, channel_usages, atpc, radio, crashed,
                  tx_events, rx_events, air, expected, calls >>


(***************************************************************************)
(* Device::transmit.  The physical radio is the environment: env.cad is     *)
(* the number of channel-activity probes that see a busy channel before     *)
(* one sees it free, env.polls the number of times check_transmit answers   *)
(* false for a slot, env.fault the radio call that returns an error (at     *)
(* slot env.fslot), env.found the recipients a binary search over an        *)
(* unsorted list reports as present.                                        *)
(***************************************************************************)
IsTransmitting(r) == r.state = "Tx"

\* LoRaRadio::transmission_check, the duty-cycle and delay part
DutyCycleConsumed(usage, t) ==
  /\ (t - usage.last) < DUTY_INTERVAL_S * 1000
  /\ usage.consumed * 100 > DUTY_CYCLE_PERCENT * DUTY_INTERVAL_S * 1000

MinChannelDelay(usage, t) == (t - usage.last) * 1000 < MIN_DELAY_US

RECURSIVE ChannelCheck(_, _, _, _)
ChannelCheck(usages, t, i, n) ==
  IF i > n THEN "Ok"
  ELSE IF DutyCycleConsumed(usages[i], t) THEN "DutyCycleConsumed"
  ELSE IF MinChannelDelay(usages[i], t) THEN "MinChannelDelayError"
  ELSE ChannelCheck(usages, t, i + 1, n)

\* the number of probes made by the channel-activity loop
CadAttempts(cad) == Min(cad + 1, MAX_ATTEMPT_FREE_CHANNEL)

\* a loop that takes the channel for free whatever the probes saw
FreeChannelAlways(cad) == TRUE

\* free_channel when the loop ends: one of the probes made saw RX_TIMEOUT
FreeChannel(cad) == cad < CadAttempts(cad)

\* [res, t]: the result of transmission_check and the time it returns at
TransmissionCheck(usages, t, nframes, n_channels, env) ==
  LET c == ChannelCheck(usages, t, 1, Min(nframes, n_channels)) IN
  IF c # "Ok" THEN [res |-> c, t |-> t]
  ELSE IF env.fault = "cad" THEN [res |-> "InternalRadioError", t |-> t]
  ELSE IF ~FreeChannel(env.cad)
       THEN [res |-> "BusyChannel", t |-> t + CAD_DELAY_MS * CadAttempts(env.cad)]
       ELSE [res |-> "Ok", t |-> t + CAD_DELAY_MS * CadAttempts(env.cad)]

\* a slot that always carries the first MAX_LORA_PAYLOAD bytes of the message
SlotBytesFirst(bytes, i) ==
  << FT_Message >> \o Slice(bytes, 0, Min(MAX_LORA_PAYLOAD, Len(bytes)))

\* the i-th physical frame of a message (i counts from 0)
SlotBytes(bytes, i) ==
  << FT_Message >> \o Slice(bytes, i * MAX_LORA_PAYLOAD,
                            Min((i + 1) * MAX_LORA_PAYLOAD, Len(bytes)))

\* the accounting of one slot in the ledger entry u
UsageAfterSlot(u, last, t) ==
  [last |-> last,
   consumed |-> IF (t - u.last) * 1000 > DUTY_INTERVAL_S
                THEN SLOT_TOA_MS ELSE u.consumed + SLOT_TOA_MS]

\* the ledger entry (0-based) that transmit updates after slot fcursor - 1
LedgerIndex(fcursor) == fcursor

\* the ledger field of a slot that was emitted but not accounted
NotCredited == -1

\* env.polls when check_transmit never answers true
NeverDone == -1

\* what the log of emitted slots keeps of the slots of one call
SlotLog(op, slots) ==
  [k \in 1..Len(slots) |->
     [op |-> op, channel |-> slots[k].channel, ledger |-> slots[k].ledger,
      at |-> slots[k].at]]

\* the emission loop of transmit: st.i is fcursor, st.t the clock
RECURSIVE TxSlotLoop(_, _, _, _, _)
TxSlotLoop(st, env, bytes, nslots, power) ==
  IF st.out # "run" \/ st.i >= nslots THEN st
  ELSE
    LET i == st.i
        faulty(op) == env.fault = op /\ env.fslot = i
        t1 == IF i > 0 /\ SLOT_BUDGET_MS - (st.t - st.last) >= 0
              THEN st.last + SLOT_BUDGET_MS ELSE st.t
        slot == [channel |-> i, power |-> power, bytes |-> SlotBytes(bytes, i), at |-> t1,
                 ledger |-> NotCredited]
        fcursor == i + 1
        t2 == t1 + env.polls * POLL_DELAY
        li == LedgerIndex(fcursor)
    IN
    IF faulty("set_channel") THEN [st EXCEPT !.out = "InternalRadioError"]
    ELSE IF faulty("start_transmit")
         THEN [st EXCEPT !.out = "InternalRadioError", !.channel = i, !.t = t1]
    ELSE IF faulty("check_transmit")
         THEN [st EXCEPT !.out = "InternalRadioError", !.channel = i, !.t = t1,
                         !.emitted = Append(@, slot), !.state = "Tx"]
    ELSE IF (env.polls # 0 /\ fcursor >= Len(st.usages)) \/ li >= Len(st.usages)
         THEN [st EXCEPT !.out = "Panic", !.channel = i, !.t = t1,
                         !.emitted = Append(@, slot), !.state = "Tx"]
    ELSE IF env.polls = NeverDone
         THEN [st EXCEPT !.out = "Blocked", !.channel = i, !.t = t1,
                         !.emitted = Append(@, slot), !.state = "Tx"]
    ELSE LET st2 == [st EXCEPT !.i = fcursor, !.t = t2, !.last = t1, !.channel = i,
                               !.emitted = Append(@, [slot EXCEPT !.ledger = li]),
                               !.state = "Standby",
                               !.usages[li + 1] = UsageAfterSlot(@, t1, t2)]
         IN  IF t2 - t1 > SLOT_BUDGET_MS THEN [st2 EXCEPT !.out = "OutOfSync"]
             ELSE TxSlotLoop(st2, env, bytes, nslots, power)

FrameAddresses(f) ==
  IF f.headers.recipients.kind = "Direct" THEN << GetAddress(f.headers.recipients.ah) >>
  ELSE [i \in 1..Len(f.headers.recipients.ahs) |->
          GetAddress(f.headers.recipients.ahs[i][1])]

\* the recipient slots of a frame that make transmit expect an acknowledgment
AckSlots(f) ==
  LET r == f.headers.recipients IN
  IF r.kind = "Direct"
  THEN (IF GetAcknowledgment(r.ah) /\ ~IsGlobal(r.ah) THEN << r.ah >> ELSE << >>)
  ELSE SelectSeq([i \in 1..Len(r.ahs) |-> r.ahs[i][1]],
                 LAMBDA ah : GetAcknowledgment(ah) /\ ~IsGlobal(ah))

\* atpc_farest_peers.binary_search(addr).is_ok()
ShouldUpdate(peers, addr, found) ==
  IF IsSorted(peers) THEN addr \in Range(peers) ELSE addr \in found

RECURSIVE PushPending(_, _, _, _, _, _)
PushPending(rb, f, slots, last, peers, found) ==
  IF slots = << >> THEN rb
  ELSE PushPending(
         RbPush(rb, [ah |-> slots[1], nonce |-> f.headers.nonce, instant |-> last,
                     update_atpc |-> IF f.headers.recipients.kind = "Direct" THEN TRUE
                                     ELSE ShouldUpdate(peers, GetAddress(slots[1]), found)]),
         f, Tail(slots), last, peers, found)

\* the payloads of frame f addressed to the 15-bit address addr, in the
\* order transmission_failed reports them
RECURSIVE GroupPayloadsFor(_, _, _)
GroupPayloadsFor(f, ahs, addr) ==
  IF ahs = << >> THEN << >>
  ELSE (IF GetAddress(ahs[1][1]) = addr
        THEN LET ids == SelectSeq(ToMessageIds(ahs[1][2]),
                                  LAMBDA mid : mid < Len(f.payloads))
             IN  [k \in 1..Len(ids) |-> f.payloads[ids[k] + 1]]
        ELSE << >>)
       \o GroupPayloadsFor(f, Tail(ahs), addr)

PayloadsFor(f, addr) ==
  IF f.headers.recipients.kind = "Direct"
  THEN (IF GetAddress(f.headers.recipients.ah) = addr THEN f.payloads ELSE << >>)
  ELSE GroupPayloadsFor(f, f.headers.recipients.ahs, addr)

\* the acknowledgments a completed transmit of f at time last waits for
RECURSIVE ExpectedOf(_, _, _, _)
ExpectedOf(f, slots, last, room) ==
  IF slots = << >> \/ room <= 0 THEN {}
  ELSE { [peer |-> GetAddress(slots[1]), nonce |-> f.headers.nonce, at |-> last,
          payloads |-> PayloadsFor(f, GetAddress(slots[1]))] }
       \cup ExpectedOf(f, Tail(slots), last, room - 1)

TxEnv(cad, polls, fault, fslot, found) ==
  [cad |-> cad, polls |-> polls, fault |-> fault, fslot |-> fslot, found |-> found]

\* a notification that carries no nonce
DoneEventNoNonce(nonce, t) ==
  [cb |-> "done", peer |-> 0, nonce |-> 0, payload |-> << >>, at |-> t]

\* tx_client.transmission_done(nonce)
DoneEvent(nonce, t) ==
  [cb |-> "done", peer |-> 0, nonce |-> nonce, payload |-> << >>, at |-> t]

\* a transmit that finds no frame and reports the device busy
TransmitIdleBusy == Ret("transmit", "Err", "BusyDevice", 0)

\* what transmit returns when there is no pending frame
TransmitIdle == Ret("transmit", "Ok", "", 0)

Transmit(env) ==
  /\ ~crashed
  /\ arg' = [op |-> "transmit", env |-> env,
             rejected |-> IF arg.op = "queue" /\ ret.val = "QueueFull"
                          THEN << << arg.dest, arg.payload, arg.ack >> >>
                          ELSE << >>,
             after_transmit |-> arg.op = "transmit" /\ ret.val = "Ok" /\ ret.nonce # 0,
             pre |-> [pending |-> Len(pending_tx_acknowledgments),
                      usages |-> channel_usages, frame |-> tx_frame, now |-> now,
                      slots |-> Len(calls.slots)]]
  /\ IF tx_frame = << >>
     THEN /\ ret' = TransmitIdle
          /\ air' = << >>
          /\ UNCHANGED << now, tx_buffer, tx_buf_acknowledgments, tx_frame, tx_history,
                          pending_tx_acknowledgments, channel_usages, atpc, radio,
                          crashed, tx_events, expected >>
     ELSE IF env.fault = "get_state"
     THEN /\ ret' = Ret("transmit", "Err", "Unknown", 0)
          /\ air' = << >>
          /\ UNCHANGED << now, tx_buffer, tx_buf_acknowledgments, tx_frame, tx_history,
                          pending_tx_acknowledgments, channel_usages, atpc, radio,
                          crashed, tx_events, expected >>
     ELSE IF IsTransmitting(radio)
     THEN /\ ret' = Ret("transmit", "Err", "BusyDevice", 0)
          /\ air' = << >>
          /\ UNCHANGED << now, tx_buffer, tx_buf_acknowledgments, tx_frame, tx_history,
                          pending_tx_acknowledgments, channel_usages, atpc, radio,
                          crashed, tx_events, expected >>
     ELSE
       LET frame == tx_frame[1]
           nframes == InfoGetFrames(frame.headers.rec_n_frames)
           chk == TransmissionCheck(channel_usages, now, nframes, nch, env)
           bytes == FrameToBytes(frame)
           mp == AtpcGetMinTxPower(atpc, FrameAddresses(frame))
           st0 == [i |-> 0, t |-> chk.t, last |-> chk.t, usages |-> channel_usages,
                   emitted |-> << >>, channel |-> radio.channel, state |-> "Cad",
                   out |-> "run"]
           st == TxSlotLoop(st0, env, bytes, Min(nframes, nch), mp.tp)
           slots == AckSlots(frame)
       IN
       IF chk.res # "Ok"
       THEN /\ ret' = Ret("transmit", "Err", chk.res, 0)
            /\ now' = chk.t
            /\ radio' = IF chk.res \in {"BusyChannel"}
                        THEN [radio EXCEPT !.state = "Cad"] ELSE radio
            /\ air' = << >>
            /\ UNCHANGED << tx_buffer, tx_buf_acknowledgments, tx_frame, tx_history,
                            pending_tx_acknowledgments, channel_usages, atpc,
                            crashed, tx_events, expected >>
       ELSE IF FrameToBytesPanics(frame) \/ mp.panic
       THEN /\ ret' = Ret("transmit", "Panic", "", 0)
            /\ crashed' = TRUE
            /\ now' = chk.t
            /\ radio' = [radio EXCEPT !.state = "Cad"]
            /\ air' = << >>
            /\ UNCHANGED << tx_buffer, tx_buf_acknowledgments, tx_frame, tx_history,
                            pending_tx_acknowledgments, channel_usages, atpc,
                            tx_events, expected >>
       ELSE IF env.fault = "set_power"
       THEN /\ ret' = Ret("transmit", "Err", "InternalRadioError", 0)
            /\ now' = chk.t
            /\ atpc' = mp.atpc
            /\ radio' = [radio EXCEPT !.state = "Cad"]
            /\ air' = << >>
            /\ UNCHANGED << tx_buffer, tx_buf_acknowledgments, tx_frame, tx_history,
                            pending_tx_acknowledgments, channel_usages,
                            crashed, tx_events, expected >>
       ELSE IF st.out # "run"
       THEN /\ ret' = Ret("transmit",
                          IF st.out \in {"Panic", "Blocked"} THEN st.out ELSE "Err",
                          IF st.out \in {"Panic", "Blocked"} THEN "" ELSE st.out, 0)
            /\ crashed' = (st.out \in {"Panic", "Blocked"})
            /\ now' = st.t
            /\ atpc' = mp.atpc
            /\ radio' = [channel |-> st.channel, power |-> mp.tp, state |-> st.state]
            /\ air' = st.emitted
            /\ channel_usages' = st.usages
            /\ UNCHANGED << tx_buffer, tx_buf_acknowledgments, tx_frame, tx_history,
                            pending_tx_acknowledgments, tx_events, expected >>
       ELSE /\ ret' = Ret("transmit", "Ok", "", frame.headers.nonce)
            /\ now' = st.t
            /\ atpc' = mp.atpc
            /\ radio' = [channel |-> st.channel, power |-> mp.tp, state |-> st.state]
            /\ air' = st.emitted
            /\ channel_usages' = st.usages
            /\ tx_history' = RbPush(tx_history, frame)
            /\ pending_tx_acknowledgments' =
                 PushPending(pending_tx_acknowledgments, frame, slots, st.last,
                             mp.peers, env.found)
            /\ expected' = expected \cup
                 ExpectedOf(frame, slots, st.last,
                            RB_CAPACITY - Len(pending_tx_acknowledgments))
            /\ tx_frame' = << >>
            /\ tx_buffer' = << >>
            /\ tx_buf_acknowledgments' = << >>
            /\ tx_events' = IF tx_client
                            THEN Append(tx_events, DoneEvent(frame.headers.nonce, st.t))
                            ELSE tx_events
            /\ UNCHANGED crashed
  /\ calls' = [calls EXCEPT !.tx = @ + (IF tx_frame = << >> THEN 0 ELSE 1),
                            !.slots = @ \o SlotLog("transmit", air')]
  /\ UNCHANGED << address, nch, rx_client, tx_client, pending_rx_acknowledgments,
                  rx_events >>


(***************************************************************************)
(* Device::transmit_beacon.  rnds[i] is the random part of the nonce of     *)
(* the i-th beacon.                                                         *)
(***************************************************************************)
\* the frame build_frame makes of one empty payload for every node, with
\* acknowledgment
BeaconFrame(self_address, nonce) ==
  BuildFrame(self_address,
             << [dest |-> << GLOBAL_ACKNOWLEDGMENT >>, payload |-> << >>] >>,
             << >>, nonce, << GLOBAL_ACKNOWLEDGMENT >>).frame

\* the accounting of one beacon in the ledger entry u: last is the instant
\* of emission, t the instant of completion
UsageAfterBeacon(u, last, t) ==
  [last |-> last,
   consumed |-> IF (t - u.last) \div 1000 > DUTY_INTERVAL_S
                THEN SLOT_TOA_MS ELSE u.consumed + SLOT_TOA_MS]

\* the instant the next beacon is built at: the slot budget is waited out
AfterBeacon(last, t) == IF SLOT_BUDGET_MS - (t - last) >= 0 THEN last + SLOT_BUDGET_MS ELSE t

\* the power the radio is set to for the beacon of index tpi
BeaconPower(powers, tpi) == powers[tpi + 1]

\* every beacon at the first power of the list
BeaconPowerFirst(powers, tpi) == powers[1]

RECURSIVE BeaconLoop(_, _, _, _, _)
\* one turn of the loop for the frame f: st.i is tpi, st.t the clock
BeaconSlot(st, env, rnds, powers, self_address, f) ==
  LET tpi == st.i
      faulty(op) == env.fault = op /\ env.fslot = tpi
      tp == BeaconPower(powers, tpi)
      slot == [channel |-> 0, power |-> tp,
               bytes |-> << FT_BroadcastCheckSignal >> \o FrameToBytes(f),
               at |-> st.t, ledger |-> NotCredited]
      registered == AtpcRegisterBeacon(st.atpc, tpi, f.headers.nonce, st.t)
      done == st.t + env.polls * (POLL_DELAY \div 1000)
  IN
  IF faulty("set_power") THEN [st EXCEPT !.out = "InternalRadioError"]
  ELSE IF faulty("set_channel")
       THEN [st EXCEPT !.out = "InternalRadioError", !.power = tp, !.atpc = registered]
  ELSE IF faulty("start_transmit")
       THEN [st EXCEPT !.out = "InternalRadioError", !.power = tp, !.atpc = registered,
                       !.channel = 0]
  ELSE IF faulty("check_transmit")
       THEN [st EXCEPT !.out = "InternalRadioError", !.power = tp, !.atpc = registered,
                       !.channel = 0, !.emitted = Append(@, slot), !.state = "Tx"]
  ELSE IF env.polls = NeverDone
       THEN [st EXCEPT !.out = "Blocked", !.power = tp, !.atpc = registered,
                       !.channel = 0, !.emitted = Append(@, slot), !.state = "Tx"]
  ELSE BeaconLoop([st EXCEPT !.i = tpi + 1, !.t = AfterBeacon(st.t, done),
                             !.power = tp, !.atpc = registered, !.channel = 0,
                             !.emitted = Append(@, [slot EXCEPT !.ledger = 0]),
                             !.state = "Standby",
                             !.usages[1] = UsageAfterBeacon(@, st.t, done),
                             !.history = RbPush(@, f)],
                  env, rnds, powers, self_address)

BeaconLoop(st, env, rnds, powers, self_address) ==
  IF st.out # "run" \/ st.i >= Len(powers) THEN st
  ELSE BeaconSlot(st, env, rnds, powers, self_address,
                  BeaconFrame(self_address, MakeNonce(st.t, rnds[st.i + 1])))

\* the end of transmit_beacon: st is what the loop left
BeaconDone(st) ==
  /\ ret' = IF st.out = "run" THEN Ret("transmit_beacon", "Ok", "", 0)
            ELSE IF st.out = "Blocked" THEN Ret("transmit_beacon", "Blocked", "", 0)
            ELSE Ret("transmit_beacon", "DeviceError", st.out, 0)
  /\ crashed' = (st.out = "Blocked")
  /\ now' = st.t
  /\ atpc' = st.atpc
  /\ radio' = [channel |-> st.channel, power |-> st.power, state |-> st.state]
  /\ air' = st.emitted
  /\ channel_usages' = st.usages
  /\ tx_history' = st.history

\* transmit_beacon once transmission_check returned chk
BeaconChecked(env, rnds, chk) ==
  IF chk.res # "Ok"
  THEN /\ ret' = Ret("transmit_beacon", "DeviceError", chk.res, 0)
       /\ now' = chk.t
       /\ radio' = IF chk.res \in {"BusyChannel"}
                   THEN [radio EXCEPT !.state = "Cad"] ELSE radio
       /\ air' = << >>
       /\ UNCHANGED << channel_usages, atpc, tx_history, crashed >>
  ELSE BeaconDone(BeaconLoop([i |-> 0, t |-> chk.t, usages |-> channel_usages,
                              emitted |-> << >>, atpc |-> atpc, history |-> tx_history,
                              power |-> radio.power, channel |-> radio.channel,
                              state |-> "Cad", out |-> "run"],
                             env, rnds, AtpcGetBeaconPowers(atpc), address))

TransmitBeacon(env, rnds) ==
  /\ ~crashed
  /\ arg' = [op |-> "transmit_beacon", env |-> env, rnds |-> rnds,
             pre |-> [history |-> Len(tx_history)]]
  /\ IF env.fault = "get_state"
     THEN /\ ret' = Ret("transmit_beacon", "DeviceError", "Unknown", 0)
          /\ air' = << >>
          /\ UNCHANGED << now, channel_usages, atpc, radio, tx_history, crashed >>
     ELSE IF IsTransmitting(radio)
     THEN /\ ret' = Ret("transmit_beacon", "DeviceError", "BusyDevice", 0)
          /\ air' = << >>
          /\ UNCHANGED << now, channel_usages, atpc, radio, tx_history, crashed >>
     ELSE BeaconChecked(env, rnds, TransmissionCheck(channel_usages, now, 1, nch, env))
  /\ calls' = [calls EXCEPT !.beacon = @ + 1,
                            !.slots = @ \o SlotLog("beacon", air')]
  /\ UNCHANGED << address, nch, rx_client, tx_client, tx_buffer, tx_buf_acknowledgments,
                  tx_frame, pending_rx_acknowledgments, pending_tx_acknowledgments,
                  tx_events, rx_events, expected >>


(***************************************************************************)
(* Device::start_reception and Device::check_reception                      *)
(***************************************************************************)
\* the tx_history lookup of check_reception: frames are popped until one
\* carries the nonce; that one is pushed back
RECURSIVE HistoryFind(_, _)
HistoryFind(history, nonce) ==
  IF history = << >> THEN [found |-> FALSE, frame |-> << >>, history |-> << >>]
  ELSE IF history[1].headers.nonce = nonce
       THEN [found |-> TRUE, frame |-> history[1],
             history |-> RbPush(Tail(history), history[1])]
       ELSE HistoryFind(Tail(history), nonce)

FailedEvents(f, addr, nonce, t) ==
  LET pls == PayloadsFor(f, addr) IN
  [k \in 1..Len(pls) |->
     [cb |-> "failed", peer |-> addr, nonce |-> nonce, payload |-> pls[k], at |-> t]]

\* a restart that stays on the channel of the last slot
StartReceptionRadioStay(r) == [r EXCEPT !.state = "Rx"]

StartReceptionRadio(r) == [r EXCEPT !.channel = 0, !.state = "Rx"]

\* a timeout of half the length
StillPendingHalf(e, t) == 2 * (t - e.instant) < ACK_TIMEOUT_MS

\* a pending acknowledgment is kept while younger than 60 s
StillPending(e, t) == t - e.instant < ACK_TIMEOUT_MS

\* the first loop of check_reception
RECURSIVE DrainExpired(_, _, _)
DrainExpired(st, client, t) ==
  IF st.pending = << >> \/ st.panic THEN st
  ELSE LET e == st.pending[1]
           rest == Tail(st.pending)
       IN
       IF StillPending(e, t)
       THEN [st EXCEPT !.pending = RbPushOverwrite(rest, e)]
       ELSE LET ra == IF e.update_atpc
                      THEN AtpcReportFailedReception(st.atpc, GetAddress(e.ah))
                      ELSE AtpcRes(st.atpc, FALSE)
                h == HistoryFind(st.history, e.nonce)
            IN  IF ra.panic THEN [st EXCEPT !.pending = rest, !.panic = TRUE]
                ELSE DrainExpired(
                       [pending |-> rest,
                        history |-> IF client THEN h.history ELSE st.history,
                        atpc |-> ra.atpc,
                        events |-> IF client /\ h.found
                                   THEN st.events \o
                                        FailedEvents(h.frame, GetAddress(e.ah), e.nonce, t)
                                   ELSE st.events,
                        panic |-> FALSE],
                       client, t)

\* what get_received leaves in a zeroed 256-byte buffer
RxBuf(bytes) == bytes \o Fill(RX_BUF_LEN - Len(bytes), 0)

NoPacket == [present |-> FALSE, bytes |-> << >>]

Packet(bytes) == [present |-> TRUE, bytes |-> bytes]

PacketAt(pkts, j) == IF j <= Len(pkts) THEN pkts[j] ELSE NoPacket

\* a node that listens to every frame
InterestedInAll(recipients, self_address) == TRUE

\* the interest of the node in a frame with these headers
Interested(recipients, self_address) ==
  IF recipients.kind = "Direct"
  THEN GetAddress(recipients.ah) = self_address \/ IsGlobal(recipients.ah)
  ELSE \E i \in 1..Len(recipients.ahs) :
         GetAddress(recipients.ahs[i][1]) = self_address \/ IsGlobal(recipients.ahs[i][1])

\* what a slot contributes to the reassembled message
SlotContribution(buf) == Slice(buf, 1, Len(buf))

\* the collection of the following slots: channel j (0-based) for j in 1..n
RECURSIVE RxCollect(_, _, _, _)
RxCollect(st, rx, j, n) ==
  IF st.out # "run" \/ j > n THEN st
  ELSE LET p == PacketAt(rx.pkts, j + 1) IN
       IF rx.fault = "set_channel" THEN [st EXCEPT !.out = "InternalRadioError"]
       ELSE IF ~p.present \/ rx.late > RX_POLL_RETRIES
            THEN [st EXCEPT !.out = "Missing", !.channel = j,
                            !.t = @ + RX_POLL_RETRIES * RX_POLL_DELAY_MS]
            ELSE IF rx.fault = "get_received_fp"
                 THEN [st EXCEPT !.out = "InternalRadioError", !.channel = j,
                                 !.t = @ + rx.late * RX_POLL_DELAY_MS]
                 ELSE RxCollect([st EXCEPT !.channel = j,
                                           !.t = @ + rx.late * RX_POLL_DELAY_MS,
                                           !.buf = @ \o SlotContribution(RxBuf(p.bytes))],
                                rx, j + 1, n)

\* the acknowledgment part of handle_message
RECURSIVE HandleAcks(_, _, _, _, _)
HandleAcks(st, acks, sender, self_address, t) ==
  IF acks = << >> \/ st.panic THEN st
  ELSE IF GetAddress(acks[1][1]) = self_address
       THEN LET ra == AtpcReportSuccessfulReception(st.atpc, sender, acks[1][2], acks[1][3])
            IN  IF ra.panic THEN [st EXCEPT !.panic = TRUE]
                ELSE HandleAcks(
                       [st EXCEPT !.atpc = ra.atpc,
                                  !.events = Append(@, [cb |-> "successful", peer |-> sender,
                                                        nonce |-> acks[1][2],
                                                        payload |-> << >>, at |-> t])],
                       Tail(acks), sender, self_address, t)
       ELSE HandleAcks(st, Tail(acks), sender, self_address, t)

ReceiveEvents(pls, sender, nonce, t) ==
  [k \in 1..Len(pls) |-> [sender |-> sender, payload |-> pls[k], nonce |-> nonce, at |-> t]]

\* a receiver that serves the first of its recipient slots only
MatchingSlotsFirst(ahs, self_address) ==
  LET all == SelectSeq(ahs, LAMBDA e : GetAddress(e[1]) = self_address \/ IsGlobal(e[1]))
  IN  IF all = << >> THEN << >> ELSE << all[1] >>

\* the recipient slots of a Group frame that handle_message serves
MatchingSlots(ahs, self_address) ==
  SelectSeq(ahs, LAMBDA e : GetAddress(e[1]) = self_address \/ IsGlobal(e[1]))

\* the Group branch of handle_message, over the matching slots
RECURSIVE HandleGroup(_, _, _, _, _)
HandleGroup(st, f, slots, drssi, t) ==
  IF slots = << >> THEN st
  ELSE LET ids == SelectSeq(ToMessageIds(slots[1][2]), LAMBDA mid : mid < Len(f.payloads))
           pls == [k \in 1..Len(ids) |-> f.payloads[ids[k] + 1]]
       IN  HandleGroup(
             [st EXCEPT !.rx_events = @ \o ReceiveEvents(pls, GetAddress(f.headers.sender),
                                                         f.headers.nonce, t),
                        !.pending_rx = IF GetAcknowledgment(slots[1][1])
                                       THEN Append(@, << f.headers.sender,
                                                         f.headers.nonce, drssi >>)
                                       ELSE @],
             f, Tail(slots), drssi, t)

\* a receiver that reports no acknowledgment
AcksUnserved(st, f, self_address, has_tx_client, t) ==
  [atpc |-> st.atpc, events |-> st.events, panic |-> FALSE]

\* the acknowledgments of the frame, reported when a transmit client is set
AcksServed(st, f, self_address, has_tx_client, t) ==
  IF has_tx_client
  THEN HandleAcks([atpc |-> st.atpc, events |-> st.events, panic |-> FALSE],
                  f.acknowledgments, GetAddress(f.headers.sender), self_address, t)
  ELSE [atpc |-> st.atpc, events |-> st.events, panic |-> FALSE]

\* the payload part of handle_message, st1 being the state after the
\* acknowledgments
HandlePayloads(st1, panic, f, drssi, self_address, has_rx_client, t) ==
  IF panic THEN [st1 EXCEPT !.out = "Panic"]
  ELSE IF ~has_rx_client THEN st1
  ELSE IF f.headers.recipients.kind = "Direct"
       THEN [st1 EXCEPT
               !.rx_events = @ \o ReceiveEvents(f.payloads,
                                   GetAddress(f.headers.sender), f.headers.nonce, t),
               !.pending_rx = IF GetAcknowledgment(f.headers.recipients.ah)
                              THEN Append(@, << f.headers.sender,
                                                f.headers.nonce, drssi >>)
                              ELSE @]
       ELSE HandleGroup(st1, f, MatchingSlots(f.headers.recipients.ahs, self_address),
                        drssi, t)

HandleAfterAcks(st, sa, f, drssi, self_address, has_rx_client, t) ==
  HandlePayloads([st EXCEPT !.atpc = sa.atpc, !.events = sa.events], sa.panic, f,
                 drssi, self_address, has_rx_client, t)

HandleFrame(st, f, drssi, self_address, has_tx_client, has_rx_client, t) ==
  HandleAfterAcks(st, AcksServed(st, f, self_address, has_tx_client, t), f, drssi,
                  self_address, has_rx_client, t)

HandleDecoded(st, d, drssi, self_address, has_tx_client, has_rx_client, t) ==
  IF d.res = "Err" THEN [st EXCEPT !.out = "FrameError"]
  ELSE IF d.res = "Panic" THEN [st EXCEPT !.out = "Panic"]
  ELSE HandleFrame(st, d.val, drssi, self_address, has_tx_client, has_rx_client, t)

\* LoRaRadio::handle_message: st carries atpc, events, rx_events, pending_rx
HandleMessage(st, msg, drssi, self_address, has_tx_client, has_rx_client, t) ==
  HandleDecoded(st, FrameFromBytes(msg), drssi, self_address, has_tx_client,
                has_rx_client, t)

RxEnv(pkts, sent, rssi, late, fault, wraps) ==
  [pkts |-> pkts, sent |-> sent, rssi |-> rssi, late |-> late, fault |-> fault,
   wraps |-> wraps]


\* the result of the reception part of check_reception when nothing is
\* received: val/err, the clock, the radio and what handle_message changed
RxBase(at, t) ==
  [val |-> "Ok(false)", err |-> "", t |-> t, radio |-> radio, atpc |-> at,
   events |-> << >>, rx_events |-> << >>, pending_rx |-> pending_rx_acknowledgments]

\* the radio on the channel of the last slot listened to
AtChannel(channel) == [radio EXCEPT !.channel = channel, !.state = "Rx"]

\* a return through start_reception without a frame
RxRestart(rx, at, r, tt) ==
  IF rx.fault = "start_reception"
  THEN [RxBase(at, tt) EXCEPT !.val = "Err", !.err = "InternalRadioError", !.radio = r]
  ELSE [RxBase(at, tt) EXCEPT !.radio = StartReceptionRadio(r)]

\* the number of slots that follow the lead
FollowingSlots(nframes, n_channels) ==
  IF nframes = 0 THEN n_channels - 1 ELSE Min(nframes - 1, n_channels - 1)

\* the end of check_reception: h is what handle_message returned
ReceiveHandled(rx, at, c, h) ==
  IF h.out = "FrameError"
  THEN [RxBase(at, c.t) EXCEPT !.val = "Err", !.err = "FrameError",
                               !.radio = AtChannel(c.channel)]
  ELSE IF h.out = "Panic"
       THEN [RxBase(at, c.t) EXCEPT !.val = "Panic", !.radio = AtChannel(c.channel),
                                    !.atpc = h.atpc, !.events = h.events]
  ELSE IF rx.fault = "start_reception"
       THEN [RxBase(at, c.t) EXCEPT !.val = "Err", !.err = "InternalRadioError",
                                    !.radio = AtChannel(c.channel),
                                    !.atpc = h.atpc, !.events = h.events,
                                    !.rx_events = h.rx_events,
                                    !.pending_rx = h.pending_rx]
       ELSE [RxBase(at, c.t) EXCEPT !.val = "Ok(true)",
                                    !.radio = StartReceptionRadio(AtChannel(c.channel)),
                                    !.atpc = h.atpc, !.events = h.events,
                                    !.rx_events = h.rx_events,
                                    !.pending_rx = h.pending_rx]

\* check_reception after the slot loop: c is what the loop collected
ReceiveCollected(rx, at, c) ==
  IF c.out = "Missing" THEN RxRestart(rx, at, AtChannel(c.channel), c.t)
  ELSE IF c.out # "run"
       THEN [RxBase(at, c.t) EXCEPT
               !.val = "Err", !.err = c.out,
               !.radio = IF rx.fault = "set_channel" THEN radio
                         ELSE AtChannel(c.channel)]
  ELSE ReceiveHandled(rx, at, c,
         HandleMessage([out |-> "Ok", atpc |-> at, events |-> << >>,
                        rx_events |-> << >>, pending_rx |-> pending_rx_acknowledgments],
                       c.buf, RSSI_TARGET - rx.rssi, address, tx_client, rx_client, c.t))

\* check_reception after the header parse hd of the lead buffer buf
ReceiveFrame(rx, at, t, buf, hd) ==
  IF hd.res = "Err" THEN [RxBase(at, t) EXCEPT !.val = "Err", !.err = "FrameError"]
  ELSE IF hd.res = "Panic" THEN [RxBase(at, t) EXCEPT !.val = "Panic"]
  ELSE IF ~Interested(hd.val.recipients, address) THEN RxBase(at, t)
  ELSE IF InfoGetFrames(hd.val.rec_n_frames) > MAX_SLOTS THEN RxRestart(rx, at, radio, t)
  ELSE IF InfoGetFrames(hd.val.rec_n_frames) = 0 /\ ~rx.wraps
       THEN [RxBase(at, t) EXCEPT !.val = "Panic"]
  ELSE ReceiveCollected(rx, at,
         RxCollect([out |-> "run", buf |-> SlotContribution(buf), t |-> t,
                    channel |-> radio.channel],
                   rx, 1, FollowingSlots(InfoGetFrames(hd.val.rec_n_frames), nch)))

\* check_reception after the radio poll: lead is the packet of channel 0 and
\* buf the receive buffer it leaves
ReceiveLead(rx, at, t, lead, buf) ==
  IF rx.fault = "check_receive"
  THEN [RxBase(at, t) EXCEPT !.val = "Err", !.err = "InternalRadioError"]
  ELSE IF ~lead.present \/ rx.fault = "get_received" THEN RxBase(at, t)
  ELSE IF Len(lead.bytes) <= 0 THEN RxBase(at, t)
  ELSE IF buf[1] # FT_Message /\ buf[1] # FT_BroadcastCheckSignal THEN RxBase(at, t)
  ELSE ReceiveFrame(rx, at, t, buf, HeadersFromBytes(Slice(buf, 1, RX_BUF_LEN)))

\* the reception part of check_reception, from the radio poll on
Receive(rx, at, t) ==
  ReceiveLead(rx, at, t, PacketAt(rx.pkts, 1), RxBuf(PacketAt(rx.pkts, 1).bytes))

StartReception ==
  /\ ~crashed
  /\ arg' = [op |-> "start_reception"]
  /\ radio' = StartReceptionRadio(radio)
  /\ ret' = Ret("start_reception", "Ok", "", 0)
  /\ UNCHANGED << now, address, nch, rx_client, tx_client, tx_buffer,
                  tx_buf_acknowledgments, tx_frame, tx_history,
                  pending_rx_acknowledgments, pending_tx_acknowledgments,
                  channel_usages, atpc, crashed, tx_events, rx_events, air, expected,
                  calls >>

\* check_reception once the expired entries are drained (d) and the radio
\* served (r)
CheckReceived(d, r) ==
  /\ pending_tx_acknowledgments' = d.pending
  /\ tx_history' = d.history
  /\ IF d.panic
     THEN /\ ret' = Ret("check_reception", "Panic", "", 0)
          /\ crashed' = TRUE
          /\ atpc' = d.atpc
          /\ tx_events' = tx_events \o d.events
          /\ UNCHANGED << now, radio, rx_events, pending_rx_acknowledgments >>
     ELSE /\ ret' = Ret("check_reception", r.val, r.err, 0)
          /\ crashed' = (r.val = "Panic")
          /\ atpc' = r.atpc
          /\ tx_events' = tx_events \o d.events \o r.events
          /\ rx_events' = rx_events \o r.rx_events
          /\ pending_rx_acknowledgments' = r.pending_rx
          /\ now' = r.t
          /\ radio' = r.radio

CheckDrained(rx, d) == CheckReceived(d, Receive(rx, d.atpc, now))

CheckReception(rx) ==
  /\ ~crashed
  /\ PacketAt(rx.pkts, 1).present => calls.rx < MaxReceptions
  /\ arg' = [op |-> "check_reception", rx |-> rx, at |-> now,
             pre |-> [rx_events |-> Len(rx_events), tx_events |-> Len(tx_events),
                      pending_rx |-> pending_rx_acknowledgments, radio |-> radio,
                      atpc |-> atpc]]
  /\ calls' = [calls EXCEPT !.rx = @ + (IF PacketAt(rx.pkts, 1).present THEN 1 ELSE 0)]
  /\ CheckDrained(rx, DrainExpired([pending |-> pending_tx_acknowledgments,
                                    history |-> tx_history, atpc |-> atpc,
                                    events |-> << >>, panic |-> FALSE], tx_client, now))
  /\ UNCHANGED << address, nch, rx_client, tx_client, tx_buffer, tx_buf_acknowledgments,
                  tx_frame, channel_usages, air, expected >>


(***************************************************************************)
(* The environment: the passing of time and the frames of the peers         *)
(***************************************************************************)
Tick ==
  /\ ~crashed
  /\ now + TickMs <= MaxTime
  /\ now' = now + TickMs
  /\ ret' = Ret("", "", "", 0)
  /\ arg' = [op |-> "tick"]
  /\ UNCHANGED << address, nch, rx_client, tx_client, tx_buffer, tx_buf_acknowledgments,
                  tx_frame, tx_history, pending_rx_acknowledgments,
                  pending_tx_acknowledgments, channel_usages, atpc, radio, crashed,
                  tx_events, rx_events, air, expected, calls >>

\* the slots a sender puts on air for the frame f
RECURSIVE SlotsFrom(_, _, _)
SlotsFrom(bytes, i, n) ==
  IF i >= n THEN << >> ELSE << Packet(SlotBytes(bytes, i)) >> \o SlotsFrom(bytes, i + 1, n)

SlotsOf(f) == SlotsFrom(FrameToBytes(f), 0, InfoGetFrames(f.headers.rec_n_frames))

\* a reception without radio fault of the packets pkts of the frame f
Heard(pkts, f) == RxEnv(pkts, f, RSSI_TARGET - 10, 0, "none", TRUE)

Silence == Heard(<< >>, << >>)

\* the frame by which peer acknowledges our frame nonce
AckFrame(peer, nonce) ==
  BuildFrame(peer, << >>, << << MyAddress, nonce, 10 >> >>, PeerNonce * 65536,
             << MyAddress >>).frame

AckRx(e) == Heard(SlotsOf(AckFrame(e.peer, e.nonce)), AckFrame(e.peer, e.nonce))

NominalTx(found) == TxEnv(0, 0, "none", 0, found)

(***************************************************************************)
(* Initial state: LoRaRadio::new                                            *)
(***************************************************************************)
InitWith(kind, has_rx_client, has_tx_client) ==
  /\ now = 0
  /\ address = MyAddress
  /\ nch = NChannels
  /\ rx_client = has_rx_client
  /\ tx_client = has_tx_client
  /\ tx_buffer = << >>
  /\ tx_buf_acknowledgments = << >>
  /\ tx_frame = << >>
  /\ tx_history = << >>
  /\ pending_rx_acknowledgments = << >>
  /\ pending_tx_acknowledgments = << >>
  /\ channel_usages = [i \in 1..NChannels |-> [last |-> 0, consumed |-> 0]]
  /\ atpc = AtpcNew(kind, TpList, 0, RSSI_TARGET, 0)
  /\ radio = [channel |-> 0, power |-> 0, state |-> "Standby"]
  /\ crashed = FALSE
  /\ ret = Ret("", "", "", 0)
  /\ tx_events = << >>
  /\ rx_events = << >>
  /\ air = << >>
  /\ expected = {}
  /\ arg = [op |-> "new"]
  /\ calls = [tx |-> 0, rx |-> 0, beacon |-> 0, slots |-> << >>]

Init == \E kind \in {"Testing", "Default"} : InitWith(kind, FALSE, TRUE)

(***************************************************************************)
(* Spec: a node that queues and transmits small frames with acknowledgment  *)
(* requests, polls for receptions and hears the acknowledgments of peers.   *)
(* Each frame is transmitted before the next is queued and before the node  *)
(* sleeps; the random part of the nonce differs from frame to frame.        *)
(***************************************************************************)
Dests == { Unique(PeerA), GroupDest(<< PeerA, PeerB >>) }

Payloads == { << 72, 69 >> }

Next ==
  \/ \E dest \in Dests, payload \in Payloads :
       tx_buffer = << >> /\ Queue(dest, payload, TRUE, calls.tx)
  \/ calls.tx < MaxFrames /\ Transmit(NominalTx({}))
  \/ CheckReception(Silence)
  \/ \E e \in expected : CheckReception(AckRx(e))
  \/ tx_frame = << >> /\ Tick

Spec == Init /\ [][Next]_vars


(***************************************************************************)
(* Properties of the acknowledgment life cycle, checked under Spec          *)
(***************************************************************************)
EventIs(ev, cb, peer, nonce) == ev.cb = cb /\ ev.peer = peer /\ ev.nonce = nonce

Acknowledged(e) ==
  \E i \in 1..Len(tx_events) : EventIs(tx_events[i], "successful", e.peer, e.nonce)

ReportedFailed(e) ==
  \E i \in 1..Len(tx_events) : EventIs(tx_events[i], "failed", e.peer, e.nonce)

\* the entry of e is still in the pending table
StillInTable(e) ==
  \E i \in 1..Len(pending_tx_acknowledgments) :
    /\ GetAddress(pending_tx_acknowledgments[i].ah) = e.peer
    /\ pending_tx_acknowledgments[i].nonce = e.nonce
    /\ pending_tx_acknowledgments[i].instant = e.at

CheckReturned == arg.op = "check_reception" /\ ret.val # "Panic"

\* C1: once transmission_successful(P, n) was notified for a frame sent to P
\* with an acknowledgment request, transmission_failed(P, n, _) is never
\* notified afterwards.
C1_NoFailureAfterSuccess ==
  \A i, j \in 1..Len(tx_events) :
    (/\ i < j
     /\ tx_events[i].cb = "successful"
     /\ \E e \in expected : e.peer = tx_events[i].peer /\ e.nonce = tx_events[i].nonce)
    => ~EventIs(tx_events[j], "failed", tx_events[i].peer, tx_events[i].nonce)

\* C2: a check_reception made later than 60 s after the creation of a pending
\* entry that was never acknowledged does not leave the entry waiting in the
\* table without a transmission_failed notification, whatever else is in the
\* table and however many checks came before.
C2_FailureAtFirstCheckAfterDeadline ==
  CheckReturned =>
    \A e \in expected :
      (arg.at > e.at + ACK_TIMEOUT_MS /\ ~Acknowledged(e) /\ StillInTable(e))
      => ReportedFailed(e)

\* C3: every transmission_failed notification comes at least 60 s after the
\* transmission that created the pending entry it reports.
C3_NoFailureBeforeTimeout ==
  \A i \in 1..Len(tx_events) :
    tx_events[i].cb = "failed" =>
      \E e \in expected :
        /\ e.peer = tx_events[i].peer
        /\ e.nonce = tx_events[i].nonce
        /\ tx_events[i].at - e.at >= ACK_TIMEOUT_MS

C3_Witness ==
  /\ arg.op = "check_reception"
  /\ \E i \in 1..Len(tx_events) : tx_events[i].cb = "failed" /\ tx_events[i].at = arg.at

\* the number of elements of the sequence s that satisfy Test
CountIn(s, Test(_)) == Cardinality({ i \in 1..Len(s) : Test(s[i]) })

\* no two transmissions drew the same nonce
NoncesDistinct == \A x, y \in expected : x.nonce = y.nonce => x.at = y.at

\* the entries of acknowledgments of peer for nonce that left the pending table
ExpiredLike(e) ==
  { x \in expected : x.peer = e.peer /\ x.nonce = e.nonce /\ ~StillInTable(x) }

\* the number of times the entries of S address the payload p
RECURSIVE Addressed(_, _)
Addressed(S, p) ==
  IF S = {} THEN 0
  ELSE LET x == CHOOSE y \in S : TRUE
       IN  CountIn(x.payloads, LAMBDA q : q = p) + Addressed(S \ {x}, p)

\* C4: with a transmit client registered, every pending entry that expired
\* was notified as transmission_failed exactly once for each payload that its
\* frame addressed to the recipient, whatever other frames were sent and
\* whatever other entries expired.
C4_FailureOncePerPayload ==
  (CheckReturned /\ NoncesDistinct) =>
    \A e \in expected :
      ~StillInTable(e) =>
        \A k \in 1..Len(e.payloads) :
          LET p == e.payloads[k]
              Reports(ev) == EventIs(ev, "failed", e.peer, e.nonce) /\ ev.payload = p
          IN  CountIn(tx_events, Reports) = Addressed(ExpiredLike(e), p)

\* the bytes of the frame put on air by the last transmit
RECURSIVE AirBytes(_)
AirBytes(slots) ==
  IF slots = << >> THEN << >>
  ELSE Slice(slots[1].bytes, 1, Len(slots[1].bytes)) \o AirBytes(Tail(slots))

TransmitReturnedNonce == arg.op = "transmit" /\ ret.val = "Ok" /\ ret.nonce # 0

\* C10: after a transmit that returned Ok(n) with n # 0, a registered
\* transmit client was notified transmission_done(n) exactly once by this
\* call, and n is the nonce in the header of the emitted frame, of the
\* tx_history entry and of every pending entry recorded for it.
C10_DoneOnceWithFrameNonce ==
  TransmitReturnedNonce =>
    /\ tx_client =>
         /\ CountIn(tx_events, LAMBDA ev : ev.cb = "done" /\ ev.at = now) = 1
         /\ CountIn(tx_events,
                    LAMBDA ev : ev.cb = "done" /\ ev.at = now /\ ev.nonce = ret.nonce) = 1
    /\ air # << >>
    /\ FrameFromBytes(AirBytes(air)).res = "Ok"
    /\ FrameFromBytes(AirBytes(air)).val.headers.nonce = ret.nonce
    /\ tx_history # << >> /\ tx_history[Len(tx_history)].headers.nonce = ret.nonce
    /\ \A i \in 1..Len(pending_tx_acknowledgments) :
         pending_tx_acknowledgments[i].instant >= air[1].at
         => pending_tx_acknowledgments[i].nonce = ret.nonce

C10_Witness ==
  /\ TransmitReturnedNonce
  /\ tx_client
  /\ Len(tx_history) = 2
  /\ \E i \in 1..Len(pending_tx_acknowledgments) :
       pending_tx_acknowledgments[i].instant >= air[1].at


(***************************************************************************)
(* SpecRx: a node that polls for receptions while a peer sends frames of    *)
(* one to five slots, to this node or to others, of which slots get lost,   *)
(* and while foreign bytes are on air                                       *)
(***************************************************************************)
\* a payload of n bytes, none of them zero
PayloadOf(n, seed) == [i \in 1..n |-> ((i + seed) % 250) + 1]

ToMe == AddressHeaderNew(MyAddress, TRUE)

\* the frame a peer builds for payloads of these sizes, all for dests
PeerFrame(dests, sizes) ==
  BuildFrame(PeerA,
             [i \in 1..Len(sizes) |-> [dest |-> dests, payload |-> PayloadOf(sizes[i], i)]],
             << >>, PeerNonce * 65536, dests).frame

\* payload sizes that make frames of 1, 2, 3, 4 and 5 slots
SlotSizes == << << 5 >>, << 300 >>, << 600 >>, << 400, 400 >>, << 400, 400, 250 >> >>

FramesToMe ==
  { PeerFrame(<< ToMe >>, SlotSizes[k]) : k \in 1..Len(SlotSizes) }
  \cup { PeerFrame(<< AddressHeaderNew(PeerB, FALSE), ToMe >>, SlotSizes[3]) }

FramesToOthers ==
  { PeerFrame(<< AddressHeaderNew(PeerB, TRUE) >>, SlotSizes[2]),
    PeerFrame(<< AddressHeaderNew(PeerB, TRUE), AddressHeaderNew(PeerA, FALSE) >>,
              SlotSizes[1]) }

\* the slots of f without the j-th
Without(pkts, j) == [i \in 1..Len(pkts) |-> IF i = j THEN NoPacket ELSE pkts[i]]

Losses(f) ==
  LET pkts == SlotsOf(f) IN
  { Heard(pkts, f), RxEnv(pkts, f, RSSI_TARGET - 10, RX_POLL_RETRIES + 1, "none", TRUE) }
  \cup { Heard(Without(pkts, j), f) : j \in 2..Len(pkts) }

\* bytes that are no frame: no recipient, too many recipients, a payload
\* longer than the slot, an unknown discriminant, an empty packet
ForeignBytes ==
  { << FT_Message, 17, 0 >>,
    << FT_Message, 17, 17 >>,
    << FT_Message, 17, 1, 0, MyAddress, 0, PeerA, 1, 0, 0, 0, 0, 0, 0, 0, 9, 0, 3, 232 >>,
    << 3, 17, 1, 0, MyAddress >>,
    << >> }

RxInputs ==
  UNION { Losses(f) : f \in FramesToMe \cup FramesToOthers }
  \cup { Heard(<< Packet(b) >>, << >>) : b \in ForeignBytes }
  \cup { Silence }

InitRx == \E kind \in {"Testing", "Default"} : InitWith(kind, FALSE, FALSE)

NextRx ==
  \/ SetReceiveClient
  \/ SetTransmitClient
  \/ StartReception
  \/ \E rx \in RxInputs : CheckReception(rx)
  \/ Tick

SpecRx == InitRx /\ [][NextRx]_vars


(***************************************************************************)
(* Properties of the reception, checked under SpecRx                        *)
(***************************************************************************)
Polled == arg.op = "check_reception"

\* the radio gave the lead packet without fault
LeadHeard(rx) ==
  /\ rx.fault = "none"
  /\ PacketAt(rx.pkts, 1).present
  /\ Len(PacketAt(rx.pkts, 1).bytes) > 0

\* the lead is a slot of a frame: it carries a known discriminant
LeadIsFrame(rx) ==
  /\ LeadHeard(rx)
  /\ PacketAt(rx.pkts, 1).bytes[1] \in {FT_Message, FT_BroadcastCheckSignal}

\* the headers parsed from the lead slot as it sits in the receive buffer
LeadHeaders(rx) ==
  HeadersFromBytes(Slice(RxBuf(PacketAt(rx.pkts, 1).bytes), 1, RX_BUF_LEN))

\* the recipient header names the node a, or every node
Names(recipients, a) ==
  IF recipients.kind = "Direct"
  THEN GetAddress(recipients.ah) = a \/ IsGlobal(recipients.ah)
  ELSE \E i \in 1..Len(recipients.ahs) :
         GetAddress(recipients.ahs[i][1]) = a \/ IsGlobal(recipients.ahs[i][1])

\* the number of slots the lead announces
Announced(rx) == InfoGetFrames(LeadHeaders(rx).val.rec_n_frames)

\* the slot j came within the polling budget
Captured(rx, j) == PacketAt(rx.pkts, j).present /\ rx.late <= RX_POLL_RETRIES

\* the byte stream the receiver reassembles from the slots heard
Reassembled(rx) ==
  RxCollect([out |-> "run", buf |-> SlotContribution(RxBuf(PacketAt(rx.pkts, 1).bytes)),
             t |-> 0, channel |-> 0],
            rx, 1, FollowingSlots(Announced(rx), nch)).buf

IsPrefix(a, b) == Len(a) <= Len(b) /\ SubSeq(b, 1, Len(a)) = a

\* what this call delivered to the receive client
Delivered == SubSeq(rx_events, arg.pre.rx_events + 1, Len(rx_events))

\* what this call notified to the transmit client
Notified == SubSeq(tx_events, arg.pre.tx_events + 1, Len(tx_events))

\* a peer sent the frame of k slots to this node and all of them were captured
FullFrameForMe(rx) ==
  /\ rx.sent # << >>
  /\ LeadIsFrame(rx)
  /\ LeadHeaders(rx).res = "Ok"
  /\ Names(rx.sent.headers.recipients, address)
  /\ Announced(rx) \in 1..MAX_SLOTS
  /\ \A j \in 1..Announced(rx) : Captured(rx, j)

\* C5: when a peer transmitted a frame of 1 to 5 slots to this node and all
\* slots were captured, the reassembled byte stream starts with the bytes of
\* the serialized frame, and the receive client got each payload addressed
\* to the node exactly once, with the address of the sender and the nonce of
\* the frame.
C5_ReassemblyDelivers ==
  (Polled /\ rx_client /\ FullFrameForMe(arg.rx)) =>
    LET f == arg.rx.sent
        pls == PayloadsFor(f, address)
    IN  /\ IsPrefix(FrameToBytes(f), Reassembled(arg.rx))
        /\ Len(Delivered) = Len(pls)
        /\ \A k \in 1..Len(pls) :
             /\ Delivered[k].payload = pls[k]
             /\ Delivered[k].sender = GetAddress(f.headers.sender)
             /\ Delivered[k].nonce = f.headers.nonce

\* an interesting lead announced k >= 2 slots and a following one did not
\* come within the polling budget
FollowingSlotMissing(rx) ==
  /\ LeadIsFrame(rx)
  /\ LeadHeaders(rx).res = "Ok"
  /\ Names(LeadHeaders(rx).val.recipients, address)
  /\ Announced(rx) \in 2..MAX_SLOTS
  /\ \E j \in 2..Announced(rx) : ~Captured(rx, j)

\* C6: when a slot that follows an interesting lead announcing two or more
\* slots does not arrive within its polling budget, check_reception returns
\* false, delivers no payload, notifies no acknowledgment, records no pending
\* acknowledgment to send and leaves the radio listening on channel 0.
C6_MissingSlotAborts ==
  (Polled /\ FollowingSlotMissing(arg.rx)) =>
    /\ ret.val = "Ok(false)"
    /\ Delivered = << >>
    /\ Notified = << >>
    /\ pending_rx_acknowledgments = arg.pre.pending_rx
    /\ radio.channel = 0 /\ radio.state = "Rx"

C6_Witness ==
  /\ Polled /\ FollowingSlotMissing(arg.rx)
  /\ rx_client /\ tx_client
  /\ Announced(arg.rx) = 3
  /\ Captured(arg.rx, 2) /\ ~Captured(arg.rx, 3)

\* the lead is a well-formed slot that names neither this node nor all nodes
LeadForOthers(rx) ==
  /\ LeadIsFrame(rx)
  /\ LeadHeaders(rx).res = "Ok"
  /\ ~Names(LeadHeaders(rx).val.recipients, address)

\* C7: a lead slot whose recipient header names neither the address of this
\* node nor the global address makes check_reception return false without
\* a change of channel, a delivery, an acknowledgment notification or a new
\* pending acknowledgment to send.
C7_ForeignLeadIgnored ==
  (Polled /\ LeadForOthers(arg.rx)) =>
    /\ ret.val = "Ok(false)"
    /\ radio = arg.pre.radio
    /\ Delivered = << >>
    /\ Notified = << >>
    /\ pending_rx_acknowledgments = arg.pre.pending_rx

C7_Witness ==
  /\ Polled /\ LeadForOthers(arg.rx)
  /\ rx_client /\ tx_client
  /\ LeadHeaders(arg.rx).val.recipients.kind = "Group"
  /\ radio.state = "Rx"

\* the bytes heard do not decode: the lead slot, or the stream reassembled
\* from all the slots of an interesting lead
Malformed(rx) ==
  /\ LeadIsFrame(rx)
  /\ \/ LeadHeaders(rx).res = "Err"
     \/ /\ LeadHeaders(rx).res = "Ok"
        /\ Names(LeadHeaders(rx).val.recipients, address)
        /\ Announced(rx) \in 1..MAX_SLOTS
        /\ \A j \in 1..Announced(rx) : Captured(rx, j)
        /\ FrameFromBytes(Reassembled(rx)).res = "Err"

\* C8: inbound bytes that fail to decode never make check_reception return
\* an error: it returns normally and the radio listens on channel 0 again.
C8_MalformedSwallowed ==
  (Polled /\ Malformed(arg.rx)) =>
    /\ ret.val \in {"Ok(true)", "Ok(false)"}
    /\ radio.channel = 0 /\ radio.state = "Rx"


(***************************************************************************)
(* SpecQueue: a node with a receive client that hears a frame naming it in  *)
(* every recipient slot, queues the acknowledgments, aggregates payloads    *)
(* of 400 and 500 bytes for one peer or for a group, and transmits          *)
(***************************************************************************)
\* a Group frame of a peer whose 16 recipient slots all name this node
ManySlotsForMe ==
  [headers |-> [rec_n_frames |-> InfoSetFrames(InfoHeaderNew(1, 0), 1),
                recipients |-> Group([i \in 1..MAX_FRAME_RECIPIENTS |-> << ToMe, 1 >>]),
                payloads |-> 1,
                sender |-> PeerA,
                nonce |-> PeerNonce * 65536],
   acknowledgments |-> << >>,
   payloads |-> << << 7 >> >>]

\* the group a payload is queued for
GroupSize == 13
FirstOfGroup == 100
BigGroup == GroupDest([i \in 1..GroupSize |-> FirstOfGroup + i])

\* the sizes of the payloads queued
SmallPayload == 400
LargePayload == 500

QueueInputs ==
  { << Unique(PeerA), PayloadOf(SmallPayload, 0) >>,
    << Unique(PeerA), PayloadOf(LargePayload, 0) >>,
    << BigGroup, PayloadOf(LargePayload, 0) >> }

InitQueue == InitWith("Testing", FALSE, FALSE)

\* the frame is heard and its acknowledgments are queued before payloads
\* are; payloads are queued once the node has run for TickMs
NextQueue ==
  \/ SetReceiveClient
  \/ rx_client /\ tx_buffer = << >>
       /\ CheckReception(Heard(SlotsOf(ManySlotsForMe), ManySlotsForMe))
  \/ tx_buffer = << >> /\ QueueAcknowledgments(calls.tx)
  \/ \E q \in QueueInputs : now > 0 /\ Queue(q[1], q[2], FALSE, calls.tx)
  \/ calls.tx < MaxFrames /\ Transmit(NominalTx({}))
  \/ now = 0 /\ Tick

SpecQueue == InitQueue /\ [][NextQueue]_vars

\* the size of the frame that queue builds for the request: the buffered
\* payloads, the new payload and the queued acknowledgments
TentativeSize(pre, dest, payload, ack) ==
  LET buf == Append(pre.tx_buffer,
                    [dest |-> QueueRecipients(dest, ack), payload |-> payload])
      n == Cardinality(RecipientKeys(buf, pre.acks))
      recipients == IF n = 1 THEN Direct(0) ELSE Group([i \in 1..n |-> << 0, 0 >>])
  IN  FrameSize([headers |-> [recipients |-> recipients],
                 acknowledgments |-> pre.acks,
                 payloads |-> [i \in 1..Len(buf) |-> buf[i].payload]])

\* queue was called with a request whose frame exceeds MAX_FRAME_LENGTH
QueuedTooMuch ==
  /\ arg.op = "queue"
  /\ Len(QueueRecipients(arg.dest, arg.ack)) <= MAX_QUEUE_RECIPIENTS
  /\ TentativeSize(arg.pre, arg.dest, arg.payload, arg.ack) > MAX_FRAME_LENGTH

\* C9: queue returns QueueFull when the frame of the buffered payloads, the
\* new payload and the queued acknowledgments exceeds MAX_FRAME_LENGTH, and
\* then leaves tx_buffer, tx_buf_acknowledgments and tx_frame as they were;
\* queueing the rejected payload again right after a successful transmit
\* succeeds.
C9_QueueFullThenRetry ==
  /\ QueuedTooMuch =>
       /\ ret.val = "QueueFull"
       /\ tx_buffer = arg.pre.tx_buffer
       /\ tx_buf_acknowledgments = arg.pre.acks
       /\ tx_frame = arg.pre.tx_frame
  /\ (arg.op = "queue" /\ arg.retry) => ret.val = "Ok"

\* the capacity failures of build_frame and of queue_acknowledgments
CapacityFailures == { "TooBigFrame", "TooBigFirstFrame", "TooManyAcknowledgments" }

\* C18: when queue or queue_acknowledgments fails for lack of room
\* (TooBigFrame, TooBigFirstFrame, TooManyAcknowledgments), the error it
\* returns is the QueueFull variant, never a plain device error.
C18_CapacityFailureIsQueueFull ==
  (arg.op \in {"queue", "queue_acknowledgments"} /\ ret.err \in CapacityFailures)
    => ret.val = "QueueFull"

(***************************************************************************)
(* Properties of transmit, checked under Spec                               *)
(***************************************************************************)
\* the state of the driver and of the radio, and the notifications made
device == << now, address, nch, rx_client, tx_client, tx_buffer, tx_buf_acknowledgments,
             tx_frame, tx_history, pending_rx_acknowledgments,
             pending_tx_acknowledgments, channel_usages, atpc, radio, crashed,
             tx_events, rx_events >>

\* C11: a transmit called while no frame is pending, in particular one called
\* right after a successful transmit, returns the nonce 0, emits no slot,
\* notifies no client and changes nothing in the driver or the radio.
C11_IdleTransmit ==
  [][ (arg'.op = "transmit" /\ (tx_frame = << >> \/ TransmitReturnedNonce))
      => /\ ret'.val = "Ok" /\ ret'.nonce = 0
         /\ air' = << >>
         /\ calls'.slots = calls.slots
         /\ UNCHANGED device ]_vars

C11_Witness ==
  /\ arg.op = "transmit" /\ arg.after_transmit
  /\ ret.val = "Ok" /\ ret.nonce = 0
  /\ tx_client /\ Len(tx_events) = 1

\* the slots started so far
Emitted == calls.slots

\* the slots started on the channel c during the duty interval that ends
\* right before the slot j
UsedBefore(j, c) ==
  { i \in 1..(j - 1) :
      /\ Emitted[i].channel = c
      /\ Emitted[j].at - Emitted[i].at < DUTY_INTERVAL_S * 1000 }

\* C14: transmit starts no slot on a channel that was used less than
\* min_delay before, nor on a channel whose duty cycle is consumed; so a
\* transmit that comes sooner than min_delay after a successful transmit on
\* the same channels emits nothing.
C14_NoEarlyReuse ==
  \A j \in 1..Len(Emitted) :
    Emitted[j].op = "transmit" =>
      /\ \A i \in 1..(j - 1) :
           Emitted[i].channel = Emitted[j].channel
           => (Emitted[j].at - Emitted[i].at) * 1000 >= MIN_DELAY_US
      /\ Cardinality(UsedBefore(j, Emitted[j].channel)) * SLOT_TOA_MS * 100
           <= DUTY_CYCLE_PERCENT * DUTY_INTERVAL_S * 1000

\* transmit was called with a pending frame
TransmitAttempted == arg.op = "transmit" /\ ~(ret.val = "Ok" /\ ret.nonce = 0)

\* the frame the last transmit was called for
AttemptedFrame == IF tx_frame # << >> THEN tx_frame[1] ELSE tx_history[Len(tx_history)]

\* the neighbor addr is registered and its model was never fitted
Initializing(at, addr) ==
  /\ HasNeighbor(at, addr)
  /\ at.neighbors[addr].status = "Initializing"
  /\ at.neighbors[addr].a = 0 /\ at.neighbors[addr].b = 0

\* C20: with the default ATPC, a transmit of a frame for one neighbor that
\* is registered and still Initializing, once the channel checks passed and
\* the radio made no fault, returns the nonce of the frame and every slot
\* was emitted at the default transmit power.
C20_DefaultPowerWhileInitializing ==
  (/\ TransmitAttempted
   /\ atpc.kind = "Default"
   /\ ret.val # "Err"
   /\ AttemptedFrame.headers.recipients.kind = "Direct"
   /\ Initializing(atpc, FrameAddresses(AttemptedFrame)[1]))
  => /\ ret.val = "Ok" /\ ret.nonce = AttemptedFrame.headers.nonce
     /\ air # << >>
     /\ \A k \in 1..Len(air) : air[k].power = atpc.tps[atpc.default_tp + 1]


(***************************************************************************)
(* SpecAir: a node with a transmit client that sends one-slot frames to a   *)
(* peer, to every node and to a crowd of sixteen peers, all with            *)
(* acknowledgment, and beacon rounds, through a radio that may report the   *)
(* end of a slot late or never; a peer acknowledges frames                  *)
(***************************************************************************)
\* at most MaxAirFrames transmit calls find a frame, MaxBeaconRounds calls
\* of transmit_beacon are made
MaxAirFrames == 4
MaxBeaconRounds == 1
\* the random part of the nonce of a beacon is drawn from 0..MaxRandom
MaxRandom == 5
\* the crowd: as many peers as a frame has recipient slots, from address
\* FirstOfCrowd + 1 on
FirstOfCrowd == 200
Crowd == GroupDest([i \in 1..MAX_FRAME_RECIPIENTS |-> FirstOfCrowd + i])

AirDests == { Unique(PeerA), Global, Crowd }

\* the radio reports the end of every slot at once, at the second poll, never
AirEnvs == { NominalTx({}), TxEnv(0, 1, "none", 0, {}), TxEnv(0, NeverDone, "none", 0, {}) }

\* the random parts of the nonces of a beacon round: all different, all equal
BeaconRandoms == { [i \in 1..Len(TpList) |-> i % (MaxRandom + 1)],
                   [i \in 1..Len(TpList) |-> MaxRandom] }

\* the nonces the ATPC holds as those of beacons
BeaconNonces == { atpc.beacons[i][1] : i \in 1..Len(atpc.beacons) }

InitAir == \E kind \in {"Testing", "Default"} : InitWith(kind, FALSE, TRUE)

NextAir ==
  \/ \E dest \in AirDests :
       now > 0 /\ tx_buffer = << >> /\ Queue(dest, << 72, 69 >>, TRUE, calls.tx)
  \/ \E env \in AirEnvs : calls.tx < MaxAirFrames /\ Transmit(env)
  \/ \E env \in AirEnvs, rnds \in BeaconRandoms :
       calls.beacon < MaxBeaconRounds /\ TransmitBeacon(env, rnds)
  \/ \E n \in BeaconNonces : CheckReception(AckRx([peer |-> PeerA, nonce |-> n]))
  \/ now = 0 /\ Tick

SpecAir == InitAir /\ [][NextAir]_vars

\* the address headers of the recipient slots of the frame f
RecipientSlots(f) ==
  IF f.headers.recipients.kind = "Direct" THEN << f.headers.recipients.ah >>
  ELSE [i \in 1..Len(f.headers.recipients.ahs) |-> f.headers.recipients.ahs[i][1]]

\* a recipient slot that asks one node for an acknowledgment
AsksOneNode(ah) ==
  ah \div ACKNOWLEDGMENT_BITMASK = 1 /\ ah % ACKNOWLEDGMENT_BITMASK # GLOBAL_NO_ACKNOWLEDGMENT

\* the frame the last successful transmit sent
SentFrame == tx_history[Len(tx_history)]

\* the pending entries recorded for the nonce n
PendingFor(n) ==
  { i \in 1..Len(pending_tx_acknowledgments) : pending_tx_acknowledgments[i].nonce = n }

\* C12: after a transmit that returned the nonce of its frame, the pending
\* table holds an entry with that nonce for every recipient slot of the
\* frame that has the ACK flag and is not global, and for no other address,
\* however many entries were pending before.
C12_PendingPerAckSlot ==
  TransmitReturnedNonce =>
    /\ \A k \in 1..Len(RecipientSlots(SentFrame)) :
         AsksOneNode(RecipientSlots(SentFrame)[k])
         => \E i \in PendingFor(ret.nonce) :
              pending_tx_acknowledgments[i].ah = RecipientSlots(SentFrame)[k]
    /\ \A i \in PendingFor(ret.nonce) :
         \E k \in 1..Len(RecipientSlots(SentFrame)) :
           /\ AsksOneNode(RecipientSlots(SentFrame)[k])
           /\ pending_tx_acknowledgments[i].ah = RecipientSlots(SentFrame)[k]

\* the slots accounted to the ledger entry of the slot j during the duty
\* interval that ends with the slot j
CreditedWith(j) ==
  { i \in 1..j :
      /\ Emitted[i].ledger = Emitted[j].ledger
      /\ Emitted[j].at - Emitted[i].at < DUTY_INTERVAL_S * 1000 }

\* C13: in every window of duty_interval, the on-air time that transmit and
\* transmit_beacon account to one channel is at most duty_cycle times
\* duty_interval.
C13_DutyCycleRespected ==
  \A j \in 1..Len(Emitted) :
    Emitted[j].ledger # NotCredited =>
      Cardinality(CreditedWith(j)) * SLOT_TOA_MS * 100
        <= DUTY_CYCLE_PERCENT * DUTY_INTERVAL_S * 1000

\* the radio does not report the end of a slot within the slot budget
SlotOverBudget(env) ==
  env.polls = NeverDone \/ env.polls * POLL_DELAY > SLOT_BUDGET_MS

\* C15: a transmit that started a slot of which the radio does not report
\* the end within the 600 ms budget returns the error OutOfSync.
C15_TransmitReturnsOutOfSync ==
  (arg.op = "transmit" /\ air # << >> /\ SlotOverBudget(arg.env))
  => (ret.val = "Err" /\ ret.err = "OutOfSync")

\* the last call that emitted was a beacon round that returned normally
BeaconRound ==
  /\ atpc.kind = "Default"
  /\ air # << >> /\ air[1].bytes[1] = FT_BroadcastCheckSignal
  /\ \/ arg.op = "transmit_beacon" /\ ret.val = "Ok"
     \/ arg.op = "check_reception"

\* the frame carried by the slot
SlotFrame(slot) == FrameFromBytes(SubSeq(slot.bytes, 2, Len(slot.bytes)))

\* the nonce of the i-th beacon of the round
BeaconNonce(i) == SlotFrame(air[i]).val.headers.nonce

\* the acknowledgments that the frame heard by the last check_reception
\* carried for this node
AcksHeard ==
  SelectSeq(arg.rx.sent.acknowledgments, LAMBDA a : a[1] % ACKNOWLEDGMENT_BITMASK = address)

\* C19: a beacon round emits one single-slot frame for every node, with
\* acknowledgment, per configured power, the i-th at the i-th power, all on
\* channel 0, and the ATPC holds the nonce of the i-th under the index i; an
\* acknowledgment of a registered neighbor that carries the nonce of the i-th
\* beacon then sets the sample of index i of this neighbor and no other.
C19_BeaconRound ==
  /\ (BeaconRound /\ arg.op = "transmit_beacon") =>
       /\ Len(air) = Len(atpc.tps)
       /\ \A i \in 1..Len(air) :
            /\ air[i].power = atpc.tps[i]
            /\ air[i].channel = 0
            /\ Len(air[i].bytes) <= MAX_LORA_PAYLOAD + 1
            /\ SlotFrame(air[i]).res = "Ok"
            /\ SlotFrame(air[i]).val.headers.recipients = Direct(GLOBAL_ACKNOWLEDGMENT)
            /\ \E k \in 1..Len(atpc.beacons) : atpc.beacons[k] = << BeaconNonce(i), i - 1 >>
  /\ (/\ BeaconRound /\ arg.op = "check_reception" /\ ret.val = "Ok(true)"
      /\ Len(AcksHeard) = 1
      /\ HasNeighbor(arg.pre.atpc, arg.rx.sent.headers.sender)) =>
       \A i \in 1..Len(air) :
         BeaconNonce(i) = AcksHeard[1][2] =>
           atpc.neighbors[arg.rx.sent.headers.sender].rssi =
             [arg.pre.atpc.neighbors[arg.rx.sent.headers.sender].rssi
                EXCEPT ![i] = AcksHeard[1][3]]

\* the nonces of the beacons of the round differ
BeaconNoncesDiffer ==
  \A i, j \in 1..Len(air) : i # j => BeaconNonce(i) # BeaconNonce(j)

\* the frames built and sent so far, and the frame built that waits
Built == tx_history \o tx_frame

\* the UNIX second a nonce was made in
SecondOf(nonce) == nonce \div 65536

\* C25: two frames that the node built within the same UNIX second, by
\* queue, queue_acknowledgments or transmit_beacon, carry different nonces.
C25_NoncesDifferWithinSecond ==
  \A i, j \in 1..Len(Built) :
    (i < j /\ SecondOf(Built[i].headers.nonce) = SecondOf(Built[j].headers.nonce))
      => Built[i].headers.nonce # Built[j].headers.nonce


(***************************************************************************)
(* SpecCodec: frames are serialized, and the bytes, cut at every length,    *)
(* and foreign bytes are deserialized                                       *)
(***************************************************************************)
\* the length of the long payload
LongPayload == 40

CodecRecipients ==
  { Direct(ToMe), Direct(GLOBAL_ACKNOWLEDGMENT),
    Group(<< << ToMe, 1 >>, << PeerB, 3 >> >>),
    Group([i \in 1..MAX_FRAME_RECIPIENTS |-> << AddressHeaderNew(FirstOfGroup + i, i % 2 = 0),
                                          Pow2(i - 1) >>]) }

CodecAcks ==
  { << >>,
    << << AddressHeaderNew(PeerA, TRUE), PeerNonce * 65536 + 513, -10 >> >>,
    [i \in 1..MAX_ACKS_PER_FRAME |-> << PeerA + i, i * 65536 + i, i - 8 >>] }

CodecPayloads ==
  { << >>, << << >> >>, << << 72, 69, 76, 79 >>, PayloadOf(LongPayload, 0), << 0 >> >> }

CodecFrames ==
  { [headers |-> [rec_n_frames |-> InfoHeaderNew(1, Len(pls) + 1),
                  recipients |-> rec,
                  payloads |-> Len(pls),
                  sender |-> PeerA,
                  nonce |-> PeerNonce * 65536 + 258],
     acknowledgments |-> acks,
     payloads |-> pls] : rec \in CodecRecipients, acks \in CodecAcks, pls \in CodecPayloads }

\* bytes with a recipient count of 0 and of 17
CodecForeign ==
  { << 17, 0, 0, PeerA, 0, PeerA, 0, 0, 0, 0, 0, 0, 0, 0, 1, 0 >>,
    << 17, MAX_FRAME_RECIPIENTS + 1 >> \o Fill(4 * (MAX_FRAME_RECIPIENTS + 1) + 12, 1) }

\* RadioFrameWithHeaders::to_bytes of the frame f
ToBytes(f) ==
  /\ ~crashed
  /\ arg' = [op |-> "to_bytes", frame |-> f]
  /\ ret' = [op |-> "to_bytes", val |-> "Ok", err |-> "", nonce |-> 0,
             bytes |-> FrameToBytes(f)]
  /\ UNCHANGED << now, address, nch, rx_client, tx_client, tx_buffer,
                  tx_buf_acknowledgments, tx_frame, tx_history,
                  pending_rx_acknowledgments, pending_tx_acknowledgments,
                  channel_usages, atpc, radio, crashed, tx_events, rx_events, air,
                  expected, calls >>

\* RadioFrameWithHeaders::try_from_bytes of bytes, which are the first bytes
\* of the serialized frames in of (none for foreign bytes)
TryFromBytes(bytes, of) ==
  /\ ~crashed
  /\ arg' = [op |-> "try_from_bytes", bytes |-> bytes, of |-> of]
  /\ ret' = [op |-> "try_from_bytes", val |-> FrameFromBytes(bytes).res, err |-> "",
             nonce |-> 0, frame |-> FrameFromBytes(bytes).val,
             read |-> FrameFromBytes(bytes).read]
  /\ crashed' = (FrameFromBytes(bytes).res = "Panic")
  /\ UNCHANGED << now, address, nch, rx_client, tx_client, tx_buffer,
                  tx_buf_acknowledgments, tx_frame, tx_history,
                  pending_rx_acknowledgments, pending_tx_acknowledgments,
                  channel_usages, atpc, radio, tx_events, rx_events, air,
                  expected, calls >>

InitCodec == InitWith("Testing", FALSE, FALSE)

NextCodec ==
  \/ \E f \in CodecFrames : ToBytes(f)
  \/ /\ arg.op = "to_bytes"
     /\ \E n \in 0..Len(ret.bytes) : TryFromBytes(SubSeq(ret.bytes, 1, n), << arg.frame >>)
  \/ \E b \in CodecForeign : TryFromBytes(b, << >>)

SpecCodec == InitCodec /\ [][NextCodec]_vars

Decoded == arg.op = "try_from_bytes"

\* the bytes given to try_from_bytes are all the bytes of a serialized frame
WholeFrame == Decoded /\ arg.of # << >> /\ Len(arg.bytes) = FrameSize(arg.of[1])

\* C16: deserializing all the bytes of the serialization of a valid frame
\* gives the frame back (headers, recipients, acknowledgments with their
\* delta-RSSI, payloads) and reports as many bytes read as were serialized.
C16_RoundTrip ==
  WholeFrame =>
    /\ ret.val = "Ok"
    /\ ret.frame = arg.of[1]
    /\ ret.read = Len(arg.bytes)

C16_Witness ==
  /\ WholeFrame /\ ret.val = "Ok"
  /\ arg.of[1].headers.recipients.kind = "Group"
  /\ Len(arg.of[1].headers.recipients.ahs) = MAX_FRAME_RECIPIENTS
  /\ Len(arg.of[1].acknowledgments) = MAX_ACKS_PER_FRAME
  /\ arg.of[1].acknowledgments[1][3] < 0
  /\ Len(arg.of[1].payloads) = 3

\* the bytes lack the end of a serialized frame
Truncated == Decoded /\ arg.of # << >> /\ Len(arg.bytes) < FrameSize(arg.of[1])

\* the bytes announce no recipient, or more than 16
BadRecipientCount ==
  Decoded /\ Len(arg.bytes) >= 2 /\ arg.bytes[2] \notin 1..MAX_FRAME_RECIPIENTS

\* C17: deserializing bytes that stop before the end of a frame, wherever
\* they stop, or that announce 0 or more than 16 recipients, returns the
\* error InvalidHeader; it does not abort on a read past the end.
C17_TruncatedIsInvalidHeader ==
  (Truncated \/ BadRecipientCount) => ret.val = "Err"


(***************************************************************************)
(* SpecBits: the modifiers of AddressHeader and of PayloadFlag are applied  *)
(* to 16-bit values and to lists of payload indices                         *)
(***************************************************************************)
\* the longest list of payload indices given to PayloadFlag::new
MaxIds == 3

\* 15-bit values: the ends, alternating bits, single bits, node addresses
AddressParts ==
  { 0, 1, 2, MyAddress, PeerA, 255, 256, 10922, 21845, 16384,
    GLOBAL_NO_ACKNOWLEDGMENT - 1, GLOBAL_NO_ACKNOWLEDGMENT }

\* 16-bit values: each of the 15-bit values with and without the top bit
HeaderValues == AddressParts \cup { a + ACKNOWLEDGMENT_BITMASK : a \in AddressParts }

PayloadIds == 0..15

IdLists == UNION { [1..n -> PayloadIds] : n \in 0..MaxIds }

\* nothing of the driver changes
BitsOnly == UNCHANGED << device, air, expected, calls >>

SetAcknowledgment(h, ack) ==
  /\ arg' = [op |-> "set_acknowledgment", header |-> h, ack |-> ack]
  /\ ret' = [op |-> "set_acknowledgment", val |-> "Ok", err |-> "", nonce |-> 0,
             header |-> AddressSetAcknowledgment(h, ack)]
  /\ BitsOnly

SetAddress(h, addr) ==
  /\ arg' = [op |-> "set_address", header |-> h, addr |-> addr]
  /\ ret' = [op |-> "set_address", val |-> "Ok", err |-> "", nonce |-> 0,
             header |-> AddressSetAddress(h, addr)]
  /\ BitsOnly

NewGlobal(ack) ==
  /\ arg' = [op |-> "new_global", ack |-> ack]
  /\ ret' = [op |-> "new_global", val |-> "Ok", err |-> "", nonce |-> 0,
             header |-> AddressNewGlobal(ack)]
  /\ BitsOnly

\* PayloadFlag::new(ids) and to_message_ids of the flag
PayloadFlagNew(ids) ==
  /\ arg' = [op |-> "payload_flag_new", ids |-> ids]
  /\ ret' = [op |-> "payload_flag_new", val |-> "Ok", err |-> "", nonce |-> 0,
             flag |-> PfNew(ids), ids |-> ToMessageIds(PfNew(ids))]
  /\ BitsOnly

\* push(id) on the flag pf and to_message_ids of the flag
PayloadFlagPush(pf, id) ==
  /\ arg' = [op |-> "payload_flag_push", flag |-> pf, id |-> id]
  /\ ret' = [op |-> "payload_flag_push", val |-> "Ok", err |-> "", nonce |-> 0,
             flag |-> PfPush(pf, id), ids |-> ToMessageIds(PfPush(pf, id))]
  /\ BitsOnly

InitBits == InitWith("Testing", FALSE, FALSE)

\* one value is built or modified, and a flag built is then pushed into
NextBits ==
  \/ arg.op = "new" /\ \E h \in HeaderValues, ack \in BOOLEAN : SetAcknowledgment(h, ack)
  \/ arg.op = "new" /\ \E h \in HeaderValues, addr \in HeaderValues : SetAddress(h, addr)
  \/ arg.op = "new" /\ \E ack \in BOOLEAN : NewGlobal(ack)
  \/ arg.op = "new" /\ \E ids \in IdLists : PayloadFlagNew(ids)
  \/ /\ arg.op = "payload_flag_new"
     /\ \E id \in PayloadIds : PayloadFlagPush(ret.flag, id)

SpecBits == InitBits /\ [][NextBits]_vars

\* the 15 low bits and the top bit of a 16-bit value
Low15(x) == x % 32768
Top(x) == x \div 32768

\* C26: set_acknowledgment leaves the 15 address bits as they were and sets
\* the top bit to the flag; set_address leaves the top bit as it was and
\* takes the 15 low bits of its argument, whose top bit is ignored;
\* new_global(ack) has the address 0x7FFF and the top bit equal to ack.
C26_AddressHeaderBits ==
  /\ arg.op = "set_acknowledgment" =>
       /\ Low15(ret.header) = Low15(arg.header)
       /\ Top(ret.header) = (IF arg.ack THEN 1 ELSE 0)
  /\ arg.op = "set_address" =>
       /\ Top(ret.header) = Top(arg.header)
       /\ Low15(ret.header) = Low15(arg.addr)
  /\ arg.op = "new_global" =>
       /\ Low15(ret.header) = 32767
       /\ Top(ret.header) = (IF arg.ack THEN 1 ELSE 0)

\* set_address was given an address whose top bit differs from the header's
C26_Witness ==
  /\ arg.op = "set_address"
  /\ Top(arg.addr) = 1 /\ Top(arg.header) = 0
  /\ Low15(arg.addr) # Low15(arg.header)
  /\ ret.header = Low15(arg.addr)

StrictlyIncreasing(s) == \A i \in 1..Len(s) - 1 : s[i] < s[i + 1]

\* C27: to_message_ids of PayloadFlag::new(ids), for ids in 0..15 in any
\* order and with repetitions, is the increasing list of the distinct
\* elements of ids; push(id) adds id and removes no index of the flag.
C27_PayloadFlagLaw ==
  /\ arg.op = "payload_flag_new" =>
       /\ StrictlyIncreasing(ret.ids)
       /\ Range(ret.ids) = Range(arg.ids)
  /\ arg.op = "payload_flag_push" =>
       /\ StrictlyIncreasing(ret.ids)
       /\ Range(ret.ids) = { i \in PayloadIds : BitAt(arg.flag, i) = 1 } \cup { arg.id }

\* a list out of order with a repetition, and a push on a flag that holds
\* other indices
C27_Witness ==
  \/ /\ arg.op = "payload_flag_new" /\ Len(arg.ids) = MaxIds
     /\ arg.ids[1] > arg.ids[2] /\ arg.ids[1] = arg.ids[MaxIds]
     /\ Len(ret.ids) = 2
  \/ /\ arg.op = "payload_flag_push" /\ arg.flag # 0
     /\ BitAt(arg.flag, arg.id) = 0
     /\ Len(ret.ids) > 2


(***************************************************************************)
(* SpecTypes: a node with both clients sends a message and a beacon round,  *)
(* and hears a one-slot frame naming it whose lead slot carries each of     *)
(* the discriminant bytes 0..7                                              *)
(***************************************************************************)
Discriminants == 0..7

\* the slots pkts with the discriminant of the lead slot set to d
Typed(pkts, d) == [pkts EXCEPT ![1].bytes[1] = d]

InitTypes == InitWith("Testing", TRUE, TRUE)

NextTypes ==
  \/ now > 0 /\ tx_buffer = << >> /\ Queue(Unique(PeerA), << 72, 69 >>, TRUE, calls.tx)
  \/ calls.tx < MaxFrames /\ Transmit(NominalTx({}))
  \/ \E rnds \in BeaconRandoms :
       calls.beacon < MaxBeaconRounds /\ TransmitBeacon(NominalTx({}), rnds)
  \/ \E d \in Discriminants :
       CheckReception(Heard(Typed(SlotsOf(PeerFrame(<< ToMe >>, SlotSizes[1])), d),
                            PeerFrame(<< ToMe >>, SlotSizes[1])))
  \/ tx_frame = << >> /\ Tick

SpecTypes == InitTypes /\ [][NextTypes]_vars

\* the discriminants reserved for future use
Reserved == { 0, 2, 3, 4, 5, 7 }

\* the discriminant of the lead slot handed to check_reception
LeadType(rx) == PacketAt(rx.pkts, 1).bytes[1]

\* C24: every slot a transmit emits starts with the byte 1 (Message), every
\* slot of a beacon round with the byte 6 (Beacon), and a check_reception
\* that reads a lead slot starting with 0, 2, 3, 4, 5 or 7 returns false,
\* delivers nothing and owes no acknowledgment.
C24_Discriminants ==
  /\ arg.op = "transmit" => \A k \in 1..Len(air) : air[k].bytes[1] = 1
  /\ arg.op = "transmit_beacon" => \A k \in 1..Len(air) : air[k].bytes[1] = 6
  /\ (Polled /\ LeadHeard(arg.rx) /\ LeadType(arg.rx) \in Reserved) =>
       /\ ret.val = "Ok(false)"
       /\ Delivered = << >>
       /\ pending_rx_acknowledgments = arg.pre.pending_rx


(***************************************************************************)
(* SpecPower: a node with the default ATPC and a transmit client sends a    *)
(* beacon round, queues a payload for a peer, hears the peer acknowledge    *)
(* the five beacons with values on a line, or a nonce never sent,           *)
(* transmits, and polls until the acknowledgment is overdue                 *)
(***************************************************************************)
\* the clock advances by PowerTickMs up to PowerMaxTime
PowerTickMs == 35000
PowerMaxTime == 250000

\* the values a peer reports for the powers of TpList: the lines
\* 5 TP - 60, 5/2 TP - 45 and -3
Lines == { << -10, -20, -30, -40, -50 >>,
           << -20, -25, -30, -35, -40 >>,
           << -3, -3, -3, -3, -3 >> }

\* a nonce the node never made
NeverSent == 77

\* the frame of peer acknowledging every registered beacon with the values vals
BeaconAcks(peer, vals) ==
  BuildFrame(peer, << >>,
             [k \in 1..Len(atpc.beacons) |->
                << MyAddress, atpc.beacons[k][1], vals[atpc.beacons[k][2] + 1] >>],
             PeerNonce * 65536, << MyAddress >>).frame

\* the frame of peer acknowledging the nonce n with the value v
LoneAck(peer, n, v) ==
  BuildFrame(peer, << >>, << << MyAddress, n, v >> >>, PeerNonce * 65536,
             << MyAddress >>).frame

\* time passes
Elapse(ms, until) ==
  /\ ~crashed
  /\ now + ms <= until
  /\ now' = now + ms
  /\ ret' = Ret("", "", "", 0)
  /\ arg' = [op |-> "tick"]
  /\ UNCHANGED << address, nch, rx_client, tx_client, tx_buffer, tx_buf_acknowledgments,
                  tx_frame, tx_history, pending_rx_acknowledgments,
                  pending_tx_acknowledgments, channel_usages, atpc, radio, crashed,
                  tx_events, rx_events, air, expected, calls >>

\* the address lists given to get_min_tx_power
PowerAddrs == { << PeerA >>, << PeerB >>, << PeerB, PeerA >>, << PeerA, PeerB >> }

\* ATPC::get_min_tx_power(addrs) on the ATPC of the driver
GetMinTxPower(addrs) ==
  /\ ~crashed
  /\ arg' = [op |-> "get_min_tx_power", addrs |-> addrs]
  /\ ret' = [op |-> "get_min_tx_power",
             val |-> IF AtpcGetMinTxPower(atpc, addrs).panic THEN "Panic" ELSE "Ok",
             err |-> "", nonce |-> 0,
             tp |-> AtpcGetMinTxPower(atpc, addrs).tp,
             peers |-> AtpcGetMinTxPower(atpc, addrs).peers]
  /\ atpc' = AtpcGetMinTxPower(atpc, addrs).atpc
  /\ crashed' = AtpcGetMinTxPower(atpc, addrs).panic
  /\ UNCHANGED << now, address, nch, rx_client, tx_client, tx_buffer,
                  tx_buf_acknowledgments, tx_frame, tx_history,
                  pending_rx_acknowledgments, pending_tx_acknowledgments,
                  channel_usages, radio, tx_events, rx_events, air, expected, calls >>

InitPower == InitWith("Default", FALSE, TRUE)

NextPower ==
  \/ now > 0 /\ calls.beacon < MaxBeaconRounds
       /\ TransmitBeacon(NominalTx({}), [i \in 1..Len(TpList) |-> i])
  \/ calls.beacon > 0 /\ tx_buffer = << >> /\ calls.tx = 0
       /\ Queue(Unique(PeerA), << 72, 69 >>, TRUE, 0)
  \/ \E vals \in Lines :
       /\ Len(atpc.beacons) = Len(TpList)
       /\ CheckReception(Heard(SlotsOf(BeaconAcks(PeerA, vals)), BeaconAcks(PeerA, vals)))
  \/ CheckReception(Heard(SlotsOf(LoneAck(PeerA, NeverSent, 10)),
                          LoneAck(PeerA, NeverSent, 10)))
  \/ /\ Len(atpc.beacons) = Len(TpList)
     /\ CheckReception(Heard(SlotsOf(LoneAck(PeerA, atpc.beacons[1][1], -20)),
                             LoneAck(PeerA, atpc.beacons[1][1], -20)))
  \/ CheckReception(Silence)
  \/ \E addrs \in PowerAddrs : calls.tx = 0 /\ HasNeighbor(atpc, PeerA) /\ GetMinTxPower(addrs)
  \/ calls.tx < MaxFrames /\ Transmit(NominalTx({}))
  \/ Elapse(PowerTickMs, PowerMaxTime)

SpecPower == InitPower /\ [][NextPower]_vars

\* the power get_tx_power finds for the address a
Required(a) == AtpcGetTxPower(atpc, a).tp

\* the largest of the powers required by the addresses
MaxRequired(addrs) ==
  CHOOSE p \in { Required(a) : a \in Range(addrs) } :
    \A a \in Range(addrs) : Required(a) <= p

\* C21: get_min_tx_power(addrs) returns the largest of the powers that
\* get_tx_power finds for the addresses, and of the addresses exactly those
\* that require this power.
C21_MaxPowerAndFarthest ==
  (arg.op = "get_min_tx_power" /\ ret.val = "Ok") =>
    /\ ret.tp = MaxRequired(arg.addrs)
    /\ Range(ret.peers) = { a \in Range(arg.addrs) : Required(a) = MaxRequired(arg.addrs) }

\* check_reception heard a frame of a registered neighbor that acknowledges
\* each of the beacons of the round
RoundAcknowledged ==
  /\ Polled /\ LeadHeard(arg.rx) /\ ret.val = "Ok(true)"
  /\ HasNeighbor(arg.pre.atpc, arg.rx.sent.headers.sender)
  /\ Len(arg.pre.atpc.beacons) = Len(TpList)
  /\ { a[2] : a \in Range(arg.rx.sent.acknowledgments) }
       = { arg.pre.atpc.beacons[k][1] : k \in 1..Len(TpList) }

\* the value the frame heard reports for the beacon sent at the i-th power
Reported(i) ==
  LET a == CHOOSE a \in Range(arg.rx.sent.acknowledgments) :
             \E k \in 1..Len(arg.pre.atpc.beacons) :
               arg.pre.atpc.beacons[k] = << a[2], i - 1 >>
  IN  a[3]

\* C22: after a registered neighbor acknowledged every beacon of a round
\* with values on a line, its model (a, b) gives a TP_i + b equal to the
\* value reported for each configured power TP_i.
C22_ModelFitsReports ==
  RoundAcknowledged =>
    \A i \in 1..Len(TpList) :
      atpc.neighbors[arg.rx.sent.headers.sender].a * TpList[i]
        + atpc.neighbors[arg.rx.sent.headers.sender].b = Reported(i)

\* this call of check_reception reported the failure of a frame sent to the
\* registered neighbor p
TimedOutFor(p) ==
  /\ Polled
  /\ HasNeighbor(arg.pre.atpc, p)
  /\ \E k \in 1..Len(Notified) : Notified[k].cb = "failed" /\ Notified[k].peer = p

\* C23: when the acknowledgment requested from a registered neighbor by a
\* unicast frame is overdue, check_reception decreases the b of the model of
\* that neighbor by 30.
C23_FailureLowersB ==
  \A p \in {PeerA, PeerB} :
    TimedOutFor(p) =>
      atpc.neighbors[p].b = arg.pre.atpc.neighbors[p].b - FAILED_DRSSI

\* the node sent a frame with the nonce n that asks the peer p for an
\* acknowledgment, less than the timeout before t, or a beacon with the
\* nonce n
AskedFor(p, n, t) ==
  \/ \E e \in expected :
       e.peer = p /\ e.nonce = n /\ e.at <= t /\ t - e.at < ACK_TIMEOUT_MS
  \/ \E k \in 1..Len(atpc.beacons) : atpc.beacons[k][1] = n

\* C29: transmission_successful(p, n) is notified, and the ATPC is given the
\* value of the acknowledgment, only for a nonce n of a frame that the node
\* sent asking p for an acknowledgment that is still awaited; an
\* acknowledgment naming the node with another nonce is ignored.
C29_OnlyAwaitedAcknowledgments ==
  /\ \A i \in 1..Len(tx_events) :
       tx_events[i].cb = "successful"
       => AskedFor(tx_events[i].peer, tx_events[i].nonce, tx_events[i].at)
  /\ (Polled /\ (crashed \/ atpc.neighbors # arg.pre.atpc.neighbors))
       => \E k \in 1..Len(Notified) :
            \/ Notified[k].cb = "failed"
            \/ /\ Notified[k].cb = "successful"
               /\ AskedFor(Notified[k].peer, Notified[k].nonce, Notified[k].at)

\* the beacon acknowledgments received from the peer p: the power indices
\* of the beacons that transmission_successful was notified for
SamplesFrom(p) ==
  { atpc.beacons[k][2] : k \in { k \in 1..Len(atpc.beacons) :
      \E i \in 1..Len(tx_events) :
        EventIs(tx_events[i], "successful", p, atpc.beacons[k][1]) } }

\* C34: a neighbor is in Runtime only when acknowledgments were received
\* from it for the beacons of every configured power index; one beacon
\* acknowledgment does not promote it.
C34_RuntimeAfterFullRound ==
  \A p \in DOMAIN atpc.neighbors :
    atpc.neighbors[p].status = "Runtime"
    => SamplesFrom(p) = 0..(Len(TpList) - 1)


(***************************************************************************)
(* SpecChannels: nodes configured with one, two or five channels queue      *)
(* payloads that make frames of one, two and five slots, and transmit       *)
(***************************************************************************)
ChannelCounts == { 1, 2, NChannels }

\* payload sizes that make frames of 1, 2 and 5 slots
OneSlot == 2
TwoSlots == 300
FiveSlots == 1100

SlotPayloads == { PayloadOf(OneSlot, 0), PayloadOf(TwoSlots, 0), PayloadOf(FiveSlots, 0) }

\* LoRaRadio::new with c channels
InitChannels ==
  \E c \in ChannelCounts :
    /\ now = 0
    /\ address = MyAddress
    /\ nch = c
    /\ rx_client = FALSE
    /\ tx_client = TRUE
    /\ tx_buffer = << >>
    /\ tx_buf_acknowledgments = << >>
    /\ tx_frame = << >>
    /\ tx_history = << >>
    /\ pending_rx_acknowledgments = << >>
    /\ pending_tx_acknowledgments = << >>
    /\ channel_usages = [i \in 1..c |-> [last |-> 0, consumed |-> 0]]
    /\ atpc = AtpcNew("Testing", TpList, 0, RSSI_TARGET, 0)
    /\ radio = [channel |-> 0, power |-> 0, state |-> "Standby"]
    /\ crashed = FALSE
    /\ ret = Ret("", "", "", 0)
    /\ tx_events = << >>
    /\ rx_events = << >>
    /\ air = << >>
    /\ expected = {}
    /\ arg = [op |-> "new"]
    /\ calls = [tx |-> 0, rx |-> 0, beacon |-> 0, slots |-> << >>]

NextChannels ==
  \/ \E payload \in SlotPayloads :
       now > 0 /\ tx_buffer = << >> /\ Queue(Unique(PeerA), payload, TRUE, calls.tx)
  \/ \E env \in { NominalTx({}), TxEnv(0, 1, "none", 0, {}) } :
       calls.tx < MaxFrames /\ Transmit(env)
  \/ Tick

SpecChannels == InitChannels /\ [][NextChannels]_vars

\* C28: transmit does not abort: whatever the number of channels and of
\* slots of the pending frame, also when they are equal, it completes or
\* returns an error.
C28_TransmitDoesNotAbort ==
  arg.op = "transmit" => (ret.val # "Panic" /\ ~crashed)

\* the slots of the last transmit that went on the channel c
SlotsOn(c) == { k \in 1..Len(air) : air[k].channel = c }

\* the ledger entry u after a slot emitted at the instant t
Accounted(u, t) ==
  [last |-> t,
   consumed |-> IF t - u.last > DUTY_INTERVAL_S * 1000 THEN SLOT_TOA_MS
                ELSE u.consumed + SLOT_TOA_MS]

\* C30: after transmit emitted a slot on a channel, the ledger entry of that
\* channel has the instant of the slot as last use and 400 ms more consumed
\* (400 ms if the duty interval had elapsed since its last use); the
\* entries of the channels that carried no slot are as before.
C30_LedgerFollowsSlots ==
  (arg.op = "transmit" /\ ~crashed) =>
    \A c \in 0..(nch - 1) :
      /\ SlotsOn(c) = {} => channel_usages[c + 1] = arg.pre.usages[c + 1]
      /\ \A k \in SlotsOn(c) :
           channel_usages[c + 1] = Accounted(arg.pre.usages[c + 1], air[k].at)


(***************************************************************************)
(* SpecFaults: a node that owes an acknowledgment, queues frames of one or  *)
(* two slots and transmits them while the channel is busy for a number of   *)
(* probes, the radio returns errors, reports the end of a slot late, and    *)
(* the ledger forbids the channel after a beacon round                      *)
(***************************************************************************)
\* at most MaxFaultCalls transmit calls find a frame
MaxFaultCalls == 2

\* the frame of a peer that asks this node for an acknowledgment
AsksMe == PeerFrame(<< ToMe >>, << 5 >>)

\* the number of probes that see the channel busy before one sees it free
BusyProbes == { 0, MAX_ATTEMPT_FREE_CHANNEL - 1, MAX_ATTEMPT_FREE_CHANNEL,
                MAX_ATTEMPT_FREE_CHANNEL + 1 }

\* the radio calls of transmit that can return an error: before the slots,
\* at a slot
RadioFaults == { "get_state", "cad", "set_power" }
SlotFaults == { "set_channel", "start_transmit", "check_transmit" }

FaultEnvs ==
  { TxEnv(c, 0, "none", 0, {}) : c \in BusyProbes }
  \cup { TxEnv(0, 1, "none", 0, {}) }
  \cup { TxEnv(0, 0, f, 0, {}) : f \in RadioFaults }
  \cup { TxEnv(0, 0, f, i, {}) : f \in SlotFaults, i \in 0..1 }

InitFaults == \E kind \in { "Testing", "Default" } : InitWith(kind, TRUE, TRUE)

NextFaults ==
  \/ now > 0 /\ tx_frame = << >> /\ calls.tx = 0
       /\ CheckReception(Heard(SlotsOf(AsksMe), AsksMe))
  \/ pending_rx_acknowledgments # << >> /\ tx_buffer = << >> /\ calls.tx = 0
       /\ QueueAcknowledgments(calls.tx)
  \/ /\ now > 0 /\ tx_buffer = << >> /\ calls.tx < MaxFaultCalls
     /\ Queue(Unique(PeerA), PayloadOf(TwoSlots, 0), TRUE, calls.tx)
  \/ \E env \in FaultEnvs :
       tx_frame # << >> /\ calls.tx < MaxFaultCalls /\ Transmit(env)
  \/ now > 0 /\ calls.beacon < MaxBeaconRounds /\ calls.tx = 0
       /\ TransmitBeacon(NominalTx({}), [i \in 1..Len(TpList) |-> i])
  \/ calls.tx < MaxFaultCalls /\ Tick

SpecFaults == InitFaults /\ [][NextFaults]_vars

\* the errors transmit returns
TransmitErrors ==
  { "BusyDevice", "DutyCycleConsumed", "MinChannelDelayError", "BusyChannel",
    "InternalRadioError", "OutOfSync", "Unknown" }

\* the bookkeeping of transmit that an error must leave alone
Outgoing == << tx_buffer, tx_buf_acknowledgments, tx_frame, tx_history,
               pending_tx_acknowledgments, tx_events >>

\* a step of transmit that found a pending frame
TransmitStep == calls'.tx # calls.tx

\* C31: a transmit that returns an error leaves the payload buffer, the
\* queued acknowledgments, the pending frame, the history, the pending
\* table and the notifications as they were; the transmit that succeeds
\* later puts the payloads of that same pending frame on air.
C31_FailedTransmitKeepsFrame ==
  [][ /\ (TransmitStep /\ ret'.val = "Err")
         => /\ ret'.err \in TransmitErrors
            /\ UNCHANGED Outgoing
      /\ (TransmitStep /\ ret'.val = "Ok")
         => /\ FrameFromBytes(AirBytes(air')).res = "Ok"
            /\ FrameFromBytes(AirBytes(air')).val.payloads = tx_frame[1].payloads
            /\ (arg.op = "transmit" /\ ret.val = "Err")
               => FrameFromBytes(AirBytes(air')).val.payloads
                    = arg.pre.frame[1].payloads ]_vars

\* the first frame went on air at the second call of transmit that found it
C31_Witness ==
  /\ TransmitReturnedNonce
  /\ calls.tx = 2 /\ Len(tx_history) = 1
  /\ Len(air) = 2
  /\ tx_buf_acknowledgments = << >> /\ Len(SentFrame.acknowledgments) = 1


\* the last call was a transmit that came to probe the channel and met no
\* radio error
Probed ==
  /\ arg.op = "transmit" /\ arg.pre.frame # << >> /\ arg.env.fault = "none"
  /\ ret.err \notin { "BusyDevice", "DutyCycleConsumed", "MinChannelDelayError" }

\* C40: the channel-activity probe makes at most 25 attempts, 100 ms apart.
\* When the attempt k <= 25 is the first to observe RX_TIMEOUT, transmit
\* goes on after k attempts and the first slot starts then; when none of
\* the 25 attempts does, transmit returns BusyChannel after 25 attempts and
\* has emitted no slot.
C40_ChannelProbe ==
  Probed =>
    IF arg.env.cad < MAX_ATTEMPT_FREE_CHANNEL
    THEN /\ ret.err # "BusyChannel"
         /\ ret.val # "Panic"
            => /\ air # << >>
               /\ air[1].at = arg.pre.now + (arg.env.cad + 1) * CAD_DELAY_MS
               /\ air[1].at - arg.pre.now <= MAX_ATTEMPT_FREE_CHANNEL * CAD_DELAY_MS
    ELSE /\ ret.val = "Err" /\ ret.err = "BusyChannel"
         /\ now = arg.pre.now + MAX_ATTEMPT_FREE_CHANNEL * CAD_DELAY_MS
         /\ air = << >>
         /\ Len(calls.slots) = arg.pre.slots

\* the channel was busy for more than 25 probes and transmit gave up
C40_Witness ==
  /\ Probed
  /\ arg.env.cad > MAX_ATTEMPT_FREE_CHANNEL
  /\ ret.err = "BusyChannel"
  /\ tx_frame = arg.pre.frame



(***************************************************************************)
(* SpecOwed: a node with a receive client that queues a payload for one     *)
(* peer or for a group that fills the recipient slots of a frame, hears a   *)
(* frame that asks it for an acknowledgment, queues the acknowledgments     *)
(* owed and transmits                                                       *)
(***************************************************************************)
InitOwed == InitWith("Testing", TRUE, FALSE)

NextOwed ==
  \/ \E dest \in { Unique(PeerA), Crowd } :
       now > 0 /\ tx_buffer = << >> /\ Queue(dest, << 72, 69 >>, FALSE, calls.tx)
  \/ now > 0 /\ CheckReception(Heard(SlotsOf(AsksMe), AsksMe))
  \/ QueueAcknowledgments(calls.tx)
  \/ calls.tx < MaxFrames /\ Transmit(NominalTx({}))
  \/ Tick

SpecOwed == InitOwed /\ [][NextOwed]_vars

\* queue_acknowledgments returned an error
QueueAcknowledgmentsFailed ==
  arg.op = "queue_acknowledgments" /\ ret.val \notin { "Ok(true)", "Ok(false)" }

\* C32: after a queue_acknowledgments that returned an error, every
\* acknowledgment that was owed before the call is still owed: it is in
\* pending_rx_acknowledgments or in the outgoing acknowledgment list.
C32_NoOwedAckLost ==
  QueueAcknowledgmentsFailed =>
    \A i \in 1..Len(arg.pre.pending_rx) :
      \/ arg.pre.pending_rx[i] \in Range(pending_rx_acknowledgments)
      \/ arg.pre.pending_rx[i] \in Range(tx_buf_acknowledgments)



(***************************************************************************)
(* SpecAtpc: a DefaultATPC configured with the powers in falling or in      *)
(* rising order, on which a neighbor is registered, the beacons of a round  *)
(* are registered, and receptions are reported for beacons and for other    *)
(* frames                                                                   *)
(***************************************************************************)
\* at most MaxReports receptions are reported
MaxReports == 3
\* the nonce of the beacon of power index 0, the nonce of a frame that is
\* no beacon
FirstBeacon == 1000
DataNonce == 500

PowerLists == { TpList, [i \in 1..Len(TpList) |-> TpList[Len(TpList) + 1 - i]] }

\* the values reported for beacons, for other frames
Samples == { -20, -40 }
Deltas == { -5, 5 }

AtpcOnly == UNCHANGED << now, address, nch, rx_client, tx_client, tx_buffer,
                         tx_buf_acknowledgments, tx_frame, tx_history,
                         pending_rx_acknowledgments, pending_tx_acknowledgments,
                         channel_usages, radio, tx_events, rx_events, air, expected >>

\* ATPC::register_neighbor
RegisterNeighbor(addr) ==
  /\ ~crashed
  /\ arg' = [op |-> "register_neighbor", addr |-> addr]
  /\ ret' = Ret("register_neighbor", IF HasNeighbor(atpc, addr) THEN "false" ELSE "true",
                "", 0)
  /\ atpc' = AtpcRegisterNeighbor(atpc, addr)
  /\ UNCHANGED << crashed, calls >>
  /\ AtpcOnly

\* ATPC::register_beacon
RegisterBeacon(tpi, nonce) ==
  /\ ~crashed
  /\ arg' = [op |-> "register_beacon", tpi |-> tpi, nonce |-> nonce]
  /\ ret' = Ret("register_beacon", "Ok", "", 0)
  /\ atpc' = AtpcRegisterBeacon(atpc, tpi, nonce, now)
  /\ UNCHANGED << crashed, calls >>
  /\ AtpcOnly

\* ATPC::report_successful_reception
ReportSuccessfulReception(addr, nonce, drssi) ==
  /\ ~crashed
  /\ arg' = [op |-> "report_successful_reception", addr |-> addr, nonce |-> nonce,
             drssi |-> drssi, pre |-> atpc]
  /\ ret' = Ret("report_successful_reception",
                IF AtpcReportSuccessfulReception(atpc, addr, nonce, drssi).panic
                THEN "Panic" ELSE "Ok", "", 0)
  /\ atpc' = AtpcReportSuccessfulReception(atpc, addr, nonce, drssi).atpc
  /\ crashed' = AtpcReportSuccessfulReception(atpc, addr, nonce, drssi).panic
  /\ calls' = [calls EXCEPT !.rx = @ + 1]
  /\ AtpcOnly

InitAtpc ==
  /\ now = 0
  /\ address = MyAddress
  /\ nch = NChannels
  /\ rx_client = FALSE
  /\ tx_client = FALSE
  /\ tx_buffer = << >>
  /\ tx_buf_acknowledgments = << >>
  /\ tx_frame = << >>
  /\ tx_history = << >>
  /\ pending_rx_acknowledgments = << >>
  /\ pending_tx_acknowledgments = << >>
  /\ channel_usages = [i \in 1..NChannels |-> [last |-> 0, consumed |-> 0]]
  /\ \E tps \in PowerLists : atpc = AtpcNew("Default", tps, 0, RSSI_TARGET, 0)
  /\ radio = [channel |-> 0, power |-> 0, state |-> "Standby"]
  /\ crashed = FALSE
  /\ ret = Ret("", "", "", 0)
  /\ tx_events = << >>
  /\ rx_events = << >>
  /\ air = << >>
  /\ expected = {}
  /\ arg = [op |-> "new"]
  /\ calls = [tx |-> 0, rx |-> 0, beacon |-> 0, slots |-> << >>]

NextAtpc ==
  \/ atpc.beacons = << >> /\ ~HasNeighbor(atpc, PeerA) /\ RegisterNeighbor(PeerA)
  \/ Len(atpc.beacons) < Len(TpList)
       /\ RegisterBeacon(Len(atpc.beacons), FirstBeacon + Len(atpc.beacons))
  \/ \E k \in 1..Len(atpc.beacons), v \in Samples :
       /\ Len(atpc.beacons) = Len(TpList) /\ calls.rx < MaxReports
       /\ ReportSuccessfulReception(PeerA, atpc.beacons[k][1], v)
  \/ \E addr \in { PeerA, PeerB }, d \in Deltas :
       /\ Len(atpc.beacons) = Len(TpList) /\ calls.rx < MaxReports
       /\ ReportSuccessfulReception(addr, DataNonce, d)

SpecAtpc == InitAtpc /\ [][NextAtpc]_vars

\* the largest and the smallest of the configured powers
UpperRail(at) == CHOOSE x \in Range(at.tps) : \A y \in Range(at.tps) : y <= x
LowerRail(at) == CHOOSE x \in Range(at.tps) : \A y \in Range(at.tps) : x <= y

\* the power in use for the registered neighbor p: the default power as long
\* as it has no model
CurrentTp(at, p) ==
  IF at.neighbors[p].a = 0 THEN at.tps[at.default_tp + 1] ELSE CalcNodeTp(at, p)

\* the report of delta moves the model of the neighbor p
Nudged(at, p, delta) ==
  \/ delta > 0 /\ CurrentTp(at, p) # UpperRail(at)
  \/ delta < 0 /\ CurrentTp(at, p) # LowerRail(at)

\* the last call reported the acknowledgment of a frame that is no beacon
DataReported ==
  /\ arg.op = "report_successful_reception"
  /\ \A k \in 1..Len(arg.pre.beacons) : arg.pre.beacons[k][1] # arg.nonce

\* C38: the report of delta for a frame that is no beacon creates no
\* neighbor, changes the a of no neighbor, and changes b only for the
\* neighbor reported: to b - delta when delta > 0 and its power is not the
\* largest or delta < 0 and its power is not the smallest.
C38_RuntimeAdjustment ==
  DataReported =>
    /\ ret.val = "Ok"
    /\ DOMAIN atpc.neighbors = DOMAIN arg.pre.neighbors
    /\ \A p \in DOMAIN arg.pre.neighbors :
         /\ atpc.neighbors[p].a = arg.pre.neighbors[p].a
         /\ atpc.neighbors[p].b =
              IF p = arg.addr /\ Nudged(arg.pre, p, arg.drssi)
              THEN arg.pre.neighbors[p].b - arg.drssi
              ELSE arg.pre.neighbors[p].b



(***************************************************************************)
(* SpecFrames: a node that queues one payload that makes a frame of a       *)
(* length at or next to a multiple of the slot length, or queues payloads   *)
(* of one byte, for one peer or for two, until one more than a payload flag *)
(* has bits for, and transmits                                              *)
(***************************************************************************)
\* the length of a frame for one peer that carries one payload of n bytes
FrameOverhead == HeadersSize([recipients |-> Direct(PeerA)]) + PayloadsSize(<< << >> >>)

\* the payload lengths that make frames of 252..254, 506, 1264 and 1265
\* bytes, and a frame one byte too long
EdgeSizes ==
  { k * MAX_LORA_PAYLOAD + d - FrameOverhead : k \in { 1 }, d \in { -1, 0, 1 } }
  \cup { 2 * MAX_LORA_PAYLOAD - FrameOverhead }
  \cup { MAX_FRAME_LENGTH + d - FrameOverhead : d \in { -1, 0, 1 } }

InitFrames == InitWith("Testing", FALSE, FALSE)

NextFrames ==
  \/ \E n \in EdgeSizes :
       /\ now > 0 /\ tx_buffer = << >> /\ calls.tx = 0
       /\ Queue(Unique(PeerA), PayloadOf(n, 0), FALSE, calls.tx)
  \/ \E dest \in { Unique(PeerA), GroupDest(<< PeerA, PeerB >>) } :
       /\ now > 0 /\ calls.tx = 0
       /\ tx_buffer # << >> => /\ Len(tx_buffer[1].payload) = 1
                               /\ tx_buffer[1].dest = QueueRecipients(dest, FALSE)
       /\ QueueUpTo(dest, << 7 >>, FALSE, calls.tx, MAX_PAYLOAD_IDS + 1)
  \/ calls.tx = 0 /\ tx_frame # << >> /\ Transmit(NominalTx({}))
  \/ now = 0 /\ Tick

SpecFrames == InitFrames /\ [][NextFrames]_vars

\* ceil(n / MAX_LORA_PAYLOAD)
SlotsNeeded(n) == (n + MAX_LORA_PAYLOAD - 1) \div MAX_LORA_PAYLOAD

\* C35: the slot count in the InfoHeader of the pending frame is
\* ceil(size / 253) for the serialized length size of the frame, and lies
\* between 1 and 5.
C35_SlotCountIsCeiling ==
  tx_frame # << >> =>
    /\ InfoGetFrames(tx_frame[1].headers.rec_n_frames)
         = SlotsNeeded(Len(FrameToBytes(tx_frame[1])))
    /\ InfoGetFrames(tx_frame[1].headers.rec_n_frames) \in 1..MAX_SLOTS

\* the payload ids flagged for the recipients of the frame f
FlaggedIds(f) ==
  IF f.headers.recipients.kind = "Direct" THEN {}
  ELSE UNION { Range(ToMessageIds(f.headers.recipients.ahs[i][2])) :
               i \in 1..Len(f.headers.recipients.ahs) }

\* C36: the pending frame holds at most 16 payloads and every payload id
\* flagged for a recipient is below the number of payloads; a queue called
\* while 16 payloads are buffered is rejected.
C36_AtMostSixteenPayloads ==
  /\ tx_frame # << >> =>
       /\ Len(tx_frame[1].payloads) <= MAX_PAYLOAD_IDS
       /\ \A id \in FlaggedIds(tx_frame[1]) : id < Len(tx_frame[1].payloads)
  /\ (arg.op = "queue" /\ Len(arg.pre.tx_buffer) >= MAX_PAYLOAD_IDS)
       => /\ ret.val = "QueueFull"
          /\ tx_buffer = arg.pre.tx_buffer


(***************************************************************************)
(* Properties of queue_acknowledgments, checked under SpecOwed              *)
(***************************************************************************)
\* the number of entries queue_acknowledgments is to move
Movable == Min(MAX_ACKS_PER_FRAME - Len(arg.pre.acks), Len(arg.pre.pending_rx))

\* C37: queue_acknowledgments moves the min(16 - already queued, owed)
\* oldest entries of pending_rx_acknowledgments to the end of the outgoing
\* list and rebuilds the pending frame with that list; the outgoing list
\* never holds more than 16 entries.
C37_AcknowledgmentsMoved ==
  /\ Len(tx_buf_acknowledgments) <= MAX_ACKS_PER_FRAME
  /\ arg.op = "queue_acknowledgments"
     => /\ tx_buf_acknowledgments
             = arg.pre.acks \o SubSeq(arg.pre.pending_rx, 1, Movable)
        /\ pending_rx_acknowledgments
             = SubSeq(arg.pre.pending_rx, Movable + 1, Len(arg.pre.pending_rx))
        /\ Movable > 0
           => /\ tx_frame # << >>
              /\ tx_frame[1].acknowledgments = tx_buf_acknowledgments


(***************************************************************************)
(* SpecGroup: a node with a receive client that hears the frames a peer     *)
(* builds from two or three queued payloads, each for everybody, for this   *)
(* node, for this node and another peer, or for the other peer only         *)
(***************************************************************************)
PeerQueueLengths == { 2, 3 }

PeerDests == { Global, Unique(MyAddress), GroupDest(<< MyAddress, PeerB >>), Unique(PeerB) }

\* the buffer of a peer that queued one payload of two bytes per entry of dests
PeerBuffer(dests, ack) ==
  [i \in 1..Len(dests) |-> [dest |-> QueueRecipients(dests[i], ack),
                            payload |-> PayloadOf(2, i)]]

\* the frames the peer builds from such a buffer, in every order of the
\* recipients
PeerGroupFrames ==
  { b.frame :
      b \in UNION { { BuildFrame(PeerA, PeerBuffer(dests, ack), << >>, PeerNonce * 65536, o) :
                        o \in Orders(RecipientKeys(PeerBuffer(dests, ack), << >>)) } :
                    dests \in UNION { [1..n -> PeerDests] : n \in PeerQueueLengths },
                    ack \in BOOLEAN } }

InitGroup == InitWith("Testing", TRUE, FALSE)

NextGroup ==
  \/ \E f \in PeerGroupFrames : CheckReception(Heard(SlotsOf(f), f))
  \/ SetTransmitClient
  \/ Tick

SpecGroup == InitGroup /\ [][NextGroup]_vars

\* the recipient slots of the Group frame f that name the address a or
\* everybody
SlotsNaming(f, a) ==
  { i \in 1..Len(f.headers.recipients.ahs) :
      GetAddress(f.headers.recipients.ahs[i][1]) = a \/ IsGlobal(f.headers.recipients.ahs[i][1]) }

\* the slots among S that flag the payload id
Flagging(f, S, id) ==
  { i \in S : id \in Range(ToMessageIds(f.headers.recipients.ahs[i][2])) }

\* the number of events of evs that carry the payload pl
Copies(evs, pl) == Cardinality({ k \in 1..Len(evs) : evs[k].payload = pl })

\* this call heard a whole Group frame of a peer
HeardGroup ==
  /\ Polled
  /\ arg.rx.sent # << >>
  /\ arg.rx.sent.headers.recipients.kind = "Group"

\* C39: when a received Group frame has several recipient slots that name
\* this node or everybody, the receive client gets, for every such slot, the
\* payloads flagged in it, each with the address of the sender and the nonce
\* of the frame, and nothing else.
C39_EveryMatchingSlotDelivered ==
  (HeardGroup /\ rx_client) =>
    LET f == arg.rx.sent
        S == SlotsNaming(f, address)
    IN  /\ \A id \in 0..(Len(f.payloads) - 1) :
             Copies(Delivered, f.payloads[id + 1]) = Cardinality(Flagging(f, S, id))
        /\ \A k \in 1..Len(Delivered) :
             /\ Delivered[k].sender = GetAddress(f.headers.sender)
             /\ Delivered[k].nonce = f.headers.nonce
             /\ \E id \in 0..(Len(f.payloads) - 1) : Delivered[k].payload = f.payloads[id + 1]

\* a frame whose second matching slot flags a payload that the first
\* matching slot does not flag was heard, and that payload was delivered
C39_Witness ==
  /\ HeardGroup /\ rx_client
  /\ ret.val = "Ok(true)"
  /\ LET f == arg.rx.sent
         S == SlotsNaming(f, address)
     IN  /\ Cardinality(S) >= 2
         /\ \E i \in S, j \in S, id \in 0..(Len(f.payloads) - 1) :
              /\ i < j
              /\ GetAddress(f.headers.recipients.ahs[i][1]) = address
              /\ IsGlobal(f.headers.recipients.ahs[j][1])
              /\ Flagging(f, S, id) = { j }
              /\ Copies(Delivered, f.payloads[id + 1]) = 1
         /\ Len(Delivered) >= 2


(***************************************************************************)
(* SpecEcho: this node, with both clients, queues and transmits frames to   *)
(* the peer PeerA, which has both clients too; the peer captures the slots  *)
(* this node put on air, handles the frame, calls queue_acknowledgments and *)
(* transmit, and this node polls while the frame of the peer is on air      *)
(***************************************************************************)
EchoSizes == { 5, 300 }

\* the packets a peer captures of the slots put on air
Captures(slots) == Heard([i \in 1..Len(slots) |-> Packet(slots[i].bytes)], << >>)

\* pending_rx_acknowledgments of the node peer, that owed nothing, after its
\* check_reception captured the slots at time t
PeerOwes(peer, slots, t) ==
  LET rx == Captures(slots) IN
  IF slots = << >> \/ ~LeadIsFrame(rx) THEN << >>
  ELSE IF LeadHeaders(rx).res # "Ok" THEN << >>
  ELSE IF ~Interested(LeadHeaders(rx).val.recipients, peer) THEN << >>
  ELSE LET h == HandleMessage([out |-> "Ok",
                               atpc |-> AtpcNew("Testing", TpList, 0, RSSI_TARGET, 0),
                               events |-> << >>, rx_events |-> << >>,
                               pending_rx |-> << >>],
                              Reassembled(rx), RSSI_TARGET - (RSSI_TARGET - 10), peer,
                              TRUE, TRUE, t)
       IN  IF h.out = "Ok" THEN h.pending_rx ELSE << >>

\* the frames the node peer has pending after queue_acknowledgments, which
\* its transmit puts on air
PeerReplies(peer, slots, t) ==
  LET owed == PeerOwes(peer, slots, t)
      acks == SubSeq(owed, 1, Min(MAX_ACKS_PER_FRAME, Len(owed)))
  IN  IF acks = << >> THEN {}
      ELSE { b.frame :
               b \in { x \in { BuildFrame(peer, << >>, acks, PeerNonce * 65536, o) :
                                 o \in Orders(RecipientKeys(<< >>, acks)) } :
                         x.res = "Ok" } }

InitEcho == \E kind \in {"Testing", "Default"} : InitWith(kind, TRUE, TRUE)

NextEcho ==
  \/ \E dest \in { Unique(PeerA), GroupDest(<< PeerA, PeerB >>) }, n \in EchoSizes,
        ack \in BOOLEAN :
       /\ now > 0 /\ tx_buffer = << >> /\ calls.tx < MaxFrames
       /\ Queue(dest, PayloadOf(n, 0), ack, calls.tx)
  \/ tx_frame # << >> /\ calls.tx < MaxFrames /\ Transmit(NominalTx({}))
  \/ /\ air # << >>
     /\ \E f \in PeerReplies(PeerA, air, now) : CheckReception(Heard(SlotsOf(f), f))
  \/ Tick

SpecEcho == InitEcho /\ [][NextEcho]_vars

\* the frame f asks the node a for an acknowledgment
AsksAck(f, a) ==
  IF f.headers.recipients.kind = "Direct"
  THEN /\ GetAddress(f.headers.recipients.ah) = a
       /\ GetAcknowledgment(f.headers.recipients.ah)
  ELSE \E i \in 1..Len(f.headers.recipients.ahs) :
         /\ GetAddress(f.headers.recipients.ahs[i][1]) = a
         /\ GetAcknowledgment(f.headers.recipients.ahs[i][1])

\* the frame this node put on air last, as a receiver decodes it
OnAir == FrameFromBytes(AirBytes(air))

\* this call polled while the frame by which the peer answers the frame
\* that this node put on air last was on air
HeardReply == Polled /\ arg.rx.sent # << >> /\ OnAir.res = "Ok"

====
